---------------------------- MODULE Spec2Model ----------------------------
(***************************************************************************)
(* Log-backup compaction of components/backup-stream/src/compact:          *)
(*   - CompactionCollector / CollectCompaction: the stream operator that   *)
(*     groups LogFile descriptors by (cf, region_id) into Compactions;     *)
(*   - CompactWorker: load, merge_and_sort, write_sst and upload of one    *)
(*     Compaction.                                                         *)
(* Byte strings are sequences of naturals, Option<T> is a sequence of      *)
(* length 0 (None) or 1 (Some), Vec<T> is a sequence.                      *)
(***************************************************************************)
EXTENDS Integers, Sequences, FiniteSets, TLC

VARIABLES
    \* ---- CollectCompaction<S> ----
    inner,              \* the upstream stream S: "open", or "ended" once it returned None
    inputs,             \* the LogFiles upstream has yielded so far, in arrival order
    items,              \* CompactionCollector.items: collect key -> UnformedCompaction
    last_compactions,   \* CollectCompaction.last_compactions: Option<Vec<Compaction>>
    ret,                \* what the current/last poll_next call has returned
    outputs,            \* the Compactions poll_next has yielded, in order
    errored,            \* poll_next has yielded an upstream error
    open_at_end,        \* Option: the accumulators that were open when upstream ended
    \* ---- CompactWorker::compact_ext ----
    c,                  \* the Compaction being compacted
    file_kvs,           \* storage: source file id -> the key/value records it decodes to
    wpc,                \* position of compact_ext
    loaded,             \* source file id -> Option<Vec<Record>> produced by its load task
    flatten_items,      \* merge_and_sort's vector
    sorted_items,       \* write_sst's iterator: the records not yet written
    key_buf,            \* write_sst's key buffer
    last_prefix,        \* write_sst's last_prefix: Option<pointer>
    puts,               \* the (key, value) pairs given to the table writer's put
    uploaded,           \* output storage: Option<[name, content]> written by compact_ext
    err,                \* Option: the phase whose error compact_ext returned
    write_calls,        \* number of calls of self.output.write made by this run
    load_statistic,     \* *ext.load_statistic, the caller's LoadStatistic
    compact_statistic,  \* *ext.compact_statistic, the caller's CompactStatistic
    max_load_concurrency, \* ext.max_load_concurrency
    inflight,           \* execute_all_ext: the load tasks started and not yet complete
    results,            \* execute_all_ext: the source file ids in the order their loads completed
    attempt,            \* "first" for the first compact_ext run on c, "retry" for the second
    first_uploaded,     \* what the first run left in the output storage
    sort_memo,          \* the vectors sort_unstable_by has been given, with what it made of them
    \* ---- LoadStatistic / CompactStatistic merges ----
    stat_kind,          \* "load" or "compact": the type of the statistics merged
    stat_ops,           \* the three statistics a, b, c given to merge_with
    stat_res,           \* Option: the results of the merges made of them
    \* ---- tikv_util::worker: Worker, Scheduler and the runner ----
    counter,            \* Worker.counter / Scheduler.counter: the shared AtomicUsize
    metrics_pending_task_count, \* the IntGauge of pending tasks
    metrics_handled_task_count, \* the IntCounter of handled tasks
    pending_capacity,   \* Scheduler.pending_capacity
    chan,               \* the unbounded channel: the messages sent and not yet received
    closed,             \* close_channel has been called
    sched,              \* Scheduler clone -> where its schedule call stands
    sched_calls,        \* Scheduler clone -> the number of schedule calls it has begun
    returned,           \* the schedule calls that have returned, each with its result
    running,            \* Option: the task the runner is running
    runner,             \* the future spawned by start_with_timer_impl: "looping" or "finished"
    shutdown_calls,     \* how many times Runnable::shutdown has been called
    timer,              \* delay_notify: "none", "armed", "queued" (Msg::Timeout sent) or "spent"
    ran,                \* the tasks the runner has run, in order
    \* ---- tikv_util::yatp_pool: FuturePool ----
    running_count,      \* metrics_running_task_count_by_priority: priority -> gauge
    handled_count,      \* metrics_handled_task_count
    max_tasks,          \* PoolInner.max_tasks
    pool_size,          \* PoolInner.pool_size
    spawner,            \* caller -> where its spawn call stands
    spawn_calls,        \* caller -> the number of spawn calls it has begun
    pool_tasks,         \* the futures given to the yatp pool and not yet finished
    spawn_returned,     \* the spawn calls that have returned, each with its result
    \* ---- Source::load called on one file ----
    load_kvs,           \* the records the file decodes to
    load_stat,          \* *stat, the LoadStatistic supplied to the call
    load_fail,          \* Option: the point at which the call meets an error
    load_ret,           \* Option: "Ok" or "Err", what the call returned
    \* ---- Record::cmp_key called on two records ----
    cmp_args,           \* <<self, other>>, or <<>> when there is no call
    cmp_ret,            \* Option: the Ordering returned
    \* ---- FuturePool: the calls that resize the pool ----
    scale_log,          \* the resizing calls made, each with the limits before and after
    \* ---- backup: SegmentMapManager ----
    seg_map,            \* SegmentMapManager.map: <<d, w>>
    index_d,            \* *index_d: level -> idx -> SstStatus
    index_w,            \* *index_w: level -> idx -> SstStatus
    finder,             \* caller -> where its find_ssts / release_index call stands
    find_calls,         \* the number of find_ssts calls begun
    handed_out          \* the SSTs returned by find_ssts and not released since

cvars == <<inner, inputs, items, last_compactions, ret, outputs, errored, open_at_end>>
wvars == <<c, file_kvs, wpc, loaded, flatten_items, sorted_items, key_buf, last_prefix,
           puts, uploaded, err, write_calls, load_statistic, compact_statistic,
           max_load_concurrency, inflight, results, attempt, first_uploaded, sort_memo>>
\* the state of the other components
svars == <<stat_kind, stat_ops, stat_res>>
schvars == <<counter, metrics_pending_task_count, metrics_handled_task_count,
             pending_capacity, chan, closed, sched, sched_calls, returned, running, ran,
             runner, shutdown_calls, timer>>
\* the runner's own state
rvars == <<runner, shutdown_calls, timer>>
fpvars == <<running_count, handled_count, max_tasks, pool_size, spawner, spawn_calls,
            pool_tasks, spawn_returned>>
lvars == <<load_kvs, load_stat, load_fail, load_ret>>
kvars == <<cmp_args, cmp_ret>>
gvars == <<seg_map, index_d, index_w, finder, find_calls, handed_out>>
pvars == <<lvars, kvars, scale_log, gvars>>
xvars == <<svars, schvars, fpvars, pvars>>
vars == <<cvars, wvars, xvars>>

None == <<>>
Some(x) == <<x>>

--------------------------------------------------------------------------
(* Bounds of the model *)

\* number of LogFile descriptors upstream yields
MaxFiles == 3
\* total number of key/value records in the source files of one Compaction
MaxRecs == 3

MiB == 1048576

\* ReadableSize::mb(128).0
compaction_size_threshold == 134217728

CFs == {"default", "write"}
Regions == {1, 2}
\* the size and the timestamp and key bounds a LogFile can carry: 64 + 64 MiB is
\* exactly the threshold, 200 MiB alone exceeds it; the two sets of bounds widen
\* each other in both directions
FileShapes ==
    {[real_size |-> 64 * MiB,  min_ts |-> 1, max_ts |-> 2, min_key |-> <<1, 2>>, max_key |-> <<2>>],
     [real_size |-> 64 * MiB,  min_ts |-> 2, max_ts |-> 3, min_key |-> <<1>>, max_key |-> <<1, 2>>],
     [real_size |-> 200 * MiB, min_ts |-> 1, max_ts |-> 2, min_key |-> <<1, 2>>, max_key |-> <<2>>]}

--------------------------------------------------------------------------
(* Byte-string order: Ord for [u8] *)

MinNat(a, b) == IF a < b THEN a ELSE b
MaxNat(a, b) == IF a > b THEN a ELSE b

RECURSIVE common_prefix_loop(_, _, _)
\* while n < k1.len() && n < k2.len() && k1[n] == k2[n] { n += 1 }
\* (Rust indexes from 0, a sequence from 1)
common_prefix_loop(k1, k2, n) ==
    IF n < Len(k1) /\ n < Len(k2) /\ k1[n + 1] = k2[n + 1]
    THEN common_prefix_loop(k1, k2, n + 1)
    ELSE n

\* a loop that compares the lengths only
common_prefix_len_LengthsOnly(k1, k2) == MinNat(Len(k1), Len(k2))

\* common_prefix_len(k1, k2): let mut n = 0; the loop; n
common_prefix_len(k1, k2) == common_prefix_loop(k1, k2, 0)

\* <[u8] as Ord>::cmp: "Less", "Equal" or "Greater"
BytesCmp(a, b) ==
    LET n == common_prefix_len(a, b)
    IN  IF n = Len(a) /\ n = Len(b) THEN "Equal"
        ELSE IF n = Len(a) THEN "Less"
        ELSE IF n = Len(b) THEN "Greater"
        ELSE IF a[n + 1] < b[n + 1] THEN "Less" ELSE "Greater"

BytesLess(a, b) == BytesCmp(a, b) = "Less"

--------------------------------------------------------------------------
(* CompactionCollector *)

CollectKeys == [cf : CFs, region_id : Regions]

\* the LogFile descriptors upstream can yield with file id `id`
LogFiles(id) ==
    {[id |-> id, region_id |-> r, cf |-> cf, min_ts |-> b.min_ts, max_ts |-> b.max_ts,
      min_key |-> b.min_key, max_key |-> b.max_key, real_size |-> b.real_size] :
        r \in Regions, cf \in CFs, b \in FileShapes}

\* a collect key that ignores the column family
CollectKeyOf_RegionOnly(file) == [region_id |-> file.region_id, cf |-> "default"]

\* add_new_file: let key = CompactionCollectKey { region_id, cf }
CollectKeyOf(file) == [region_id |-> file.region_id, cf |-> file.cf]

MapInsert(m, k, v) == [x \in DOMAIN m \cup {k} |-> IF x = k THEN v ELSE m[x]]
\* a removal that clears the whole map
MapRemove_All(m, k) == [x \in DOMAIN m \ DOMAIN m |-> m[x]]
MapRemove(m, k) == [x \in DOMAIN m \ {k} |-> m[x]]

\* Widen that puts the new file id in front of the list
Widen_Prepend(u, file) ==
    [size    |-> u.size + file.real_size,
     files   |-> <<file.id>> \o u.files,
     min_ts  |-> MinNat(u.min_ts, file.min_ts),
     max_ts  |-> MaxNat(u.max_ts, file.max_ts),
     max_key |-> IF BytesLess(u.max_key, file.max_key) THEN file.max_key ELSE u.max_key,
     min_key |-> IF BytesLess(file.min_key, u.min_key) THEN file.min_key ELSE u.min_key]

\* Widen without u.files.push(file.id)
Widen_DropFile(u, file) ==
    [size    |-> u.size + file.real_size,
     files   |-> u.files,
     min_ts  |-> MinNat(u.min_ts, file.min_ts),
     max_ts  |-> MaxNat(u.max_ts, file.max_ts),
     max_key |-> IF BytesLess(u.max_key, file.max_key) THEN file.max_key ELSE u.max_key,
     min_key |-> IF BytesLess(file.min_key, u.min_key) THEN file.min_key ELSE u.min_key]

\* Widen with the min_key comparison turned around
Widen_MinKeyReversed(u, file) ==
    [size    |-> u.size + file.real_size,
     files   |-> Append(u.files, file.id),
     min_ts  |-> MinNat(u.min_ts, file.min_ts),
     max_ts  |-> MaxNat(u.max_ts, file.max_ts),
     max_key |-> IF BytesLess(u.max_key, file.max_key) THEN file.max_key ELSE u.max_key,
     min_key |-> IF BytesLess(u.min_key, file.min_key) THEN file.min_key ELSE u.min_key]

\* Entry::Occupied: the accumulator after the file has been added to it
Widen(u, file) ==
    [size    |-> u.size + file.real_size,
     files   |-> Append(u.files, file.id),
     min_ts  |-> MinNat(u.min_ts, file.min_ts),
     max_ts  |-> MaxNat(u.max_ts, file.max_ts),
     max_key |-> IF BytesLess(u.max_key, file.max_key) THEN file.max_key ELSE u.max_key,
     min_key |-> IF BytesLess(file.min_key, u.min_key) THEN file.min_key ELSE u.min_key]

\* Entry::Vacant: the accumulator seeded from the first file of a key
Seed(file) ==
    [size    |-> file.real_size,
     files   |-> <<file.id>>,
     min_ts  |-> file.min_ts,
     max_ts  |-> file.max_ts,
     min_key |-> file.min_key,
     max_key |-> file.max_key]

\* the Compaction built from an accumulator and its key
Form(key, u) ==
    [source    |-> u.files,
     region_id |-> key.region_id,
     cf        |-> key.cf,
     size      |-> u.size,
     min_ts    |-> u.min_ts,
     max_ts    |-> u.max_ts,
     min_key   |-> u.min_key,
     max_key   |-> u.max_key]

\* add_new_file that emits and leaves the emitted accumulator in the map
add_new_file_KeepsEmitted(its, file) ==
    LET key == CollectKeyOf(file)
    IN  IF key \in DOMAIN its
        THEN LET u == Widen(its[key], file)
             IN  IF u.size > compaction_size_threshold
                 THEN [items |-> MapInsert(its, key, u), out |-> Some(Form(key, u))]
                 ELSE [items |-> MapInsert(its, key, u), out |-> None]
        ELSE [items |-> MapInsert(its, key, Seed(file)), out |-> None]

\* add_new_file that compares with the threshold in the Vacant branch too
add_new_file_VacantEmits(its, file) ==
    LET key == CollectKeyOf(file)
        u == IF key \in DOMAIN its THEN Widen(its[key], file) ELSE Seed(file)
    IN  IF u.size > compaction_size_threshold
        THEN [items |-> MapRemove(its, key), out |-> Some(Form(key, u))]
        ELSE [items |-> MapInsert(its, key, u), out |-> None]

\* add_new_file(&mut self, file) -> Option<Compaction>:
\* the map afterwards and the value returned
add_new_file(its, file) ==
    LET key == CollectKeyOf(file)
    IN  IF key \in DOMAIN its
        THEN LET u == Widen(its[key], file)
             IN  IF u.size > compaction_size_threshold
                 THEN [items |-> MapRemove(its, key), out |-> Some(Form(key, u))]
                 ELSE [items |-> MapInsert(its, key, u), out |-> None]
        ELSE [items |-> MapInsert(its, key, Seed(file)), out |-> None]

\* the end of input handled without collecting the open accumulators
take_pending_compactions_Empty(its) == {<<>>}

\* take_pending_compactions().collect(): HashMap::drain visits the entries in an
\* arbitrary order, so every enumeration of the map is a possible Vec
take_pending_compactions(its) ==
    LET n == Cardinality(DOMAIN its)
        orders == {p \in [1..n -> DOMAIN its] : \A i, j \in 1..n : p[i] = p[j] => i = j}
    IN  {[i \in 1..n |-> Form(p[i], its[p[i]])] : p \in orders}

--------------------------------------------------------------------------
(* CollectCompaction::poll_next, one action per turn of its loop.  While      *)
(* ret.kind = "Looping" the call has not returned and the next action is the  *)
(* next turn of the same call; otherwise the next action starts a new call.   *)

Ret(kind, item) == [kind |-> kind, item |-> item]

\* a drained buffer that is forgotten once it is empty
Finalize_ForgetsWhenEmpty(v) ==
    IF Len(v) = 0
    THEN [last |-> None, ret |-> Ret("End", None)]
    ELSE [last |-> Some(SubSeq(v, 1, Len(v) - 1)), ret |-> Ret("Item", Some(v[Len(v)]))]

\* if let Some(finalize) = this.last_compactions { return finalize.pop().map(Ok).into() }
Finalize(v) ==
    IF Len(v) = 0
    THEN [last |-> Some(v), ret |-> Ret("End", None)]
    ELSE [last |-> Some(SubSeq(v, 1, Len(v) - 1)), ret |-> Ret("Item", Some(v[Len(v)]))]

Yield(r) == IF r.kind = "Item" THEN Append(outputs, r.item[1]) ELSE outputs

PollFinalize ==
    /\ last_compactions # None
    /\ LET f == Finalize(last_compactions[1])
       IN  /\ last_compactions' = f.last
           /\ ret' = f.ret
           /\ outputs' = Yield(f.ret)
    /\ UNCHANGED <<inner, inputs, items, errored, open_at_end, wvars, xvars>>

\* ready!(inner.poll_next(cx)) with the upstream not ready
InnerPending ==
    /\ last_compactions = None
    /\ inner = "open"
    /\ ret' = Ret("Pending", None)
    /\ UNCHANGED <<inner, inputs, items, last_compactions, outputs, errored, open_at_end, wvars, xvars>>

\* upstream returns None: the accumulators are drained into last_compactions and
\* the next turn of the loop pops the first of them
InnerNone ==
    /\ last_compactions = None
    /\ inner = "open"
    /\ inner' = "ended"
    /\ open_at_end' = Some(items)
    /\ \E v \in take_pending_compactions(items) :
          LET f == Finalize(v)
          IN  /\ last_compactions' = f.last
              /\ ret' = f.ret
              /\ outputs' = Yield(f.ret)
    /\ items' = <<>>
    /\ UNCHANGED <<inputs, errored, wvars, xvars>>

\* upstream returns Some(Err(err)): return Some(Err(err.attach_current_frame()))
InnerErr ==
    /\ last_compactions = None
    /\ inner = "open"
    /\ ret' = Ret("Err", None)
    /\ errored' = TRUE
    /\ UNCHANGED <<inner, inputs, items, last_compactions, outputs, open_at_end, wvars, xvars>>

\* upstream returns Some(Ok(item)): add_new_file, return the Compaction if one formed
InnerItem ==
    /\ last_compactions = None
    /\ inner = "open"
    /\ Len(inputs) < MaxFiles
    /\ \E file \in LogFiles(Len(inputs) + 1) :
          LET a == add_new_file(items, file)
              r == IF a.out = None THEN Ret("Looping", None) ELSE Ret("Item", a.out)
          IN  /\ inputs' = Append(inputs, file)
              /\ items' = a.items
              /\ ret' = r
              /\ outputs' = Yield(r)
    /\ UNCHANGED <<inner, last_compactions, errored, open_at_end, wvars, xvars>>

--------------------------------------------------------------------------
(* LoadStatistic and CompactStatistic; the u64 counters stay far below 2^64 here *)

\* LoadStatistic::default()
LoadStatisticZero ==
    [files_in |-> 0, keys_in |-> 0, physical_bytes_in |-> 0,
     logical_key_bytes_in |-> 0, logical_value_bytes_in |-> 0]

\* a merge that overwrites the file count instead of adding to it
Load_merge_with_AssignFiles(self, other) ==
    [files_in |-> other.files_in,
     keys_in |-> self.keys_in + other.keys_in,
     physical_bytes_in |-> self.physical_bytes_in + other.physical_bytes_in,
     logical_key_bytes_in |-> self.logical_key_bytes_in + other.logical_key_bytes_in,
     logical_value_bytes_in |-> self.logical_value_bytes_in + other.logical_value_bytes_in]

\* LoadStatistic::merge_with
Load_merge_with(self, other) ==
    [files_in |-> self.files_in + other.files_in,
     keys_in |-> self.keys_in + other.keys_in,
     physical_bytes_in |-> self.physical_bytes_in + other.physical_bytes_in,
     logical_key_bytes_in |-> self.logical_key_bytes_in + other.logical_key_bytes_in,
     logical_value_bytes_in |-> self.logical_value_bytes_in + other.logical_value_bytes_in]

\* CompactStatistic::default(); a Duration is a number of clock ticks
CompactStatisticZero ==
    [keys_out |-> 0, physical_bytes_out |-> 0,
     logical_key_bytes_out |-> 0, logical_value_bytes_out |-> 0,
     write_sst_duration |-> 0, load_duration |-> 0, sort_duration |-> 0, save_duration |-> 0]

\* CompactStatistic::merge_with
Compact_merge_with(self, other) ==
    [keys_out |-> self.keys_out + other.keys_out,
     physical_bytes_out |-> self.physical_bytes_out + other.physical_bytes_out,
     logical_key_bytes_out |-> self.logical_key_bytes_out + other.logical_key_bytes_out,
     logical_value_bytes_out |-> self.logical_value_bytes_out + other.logical_value_bytes_out,
     write_sst_duration |-> self.write_sst_duration + other.write_sst_duration,
     load_duration |-> self.load_duration + other.load_duration,
     sort_duration |-> self.sort_duration + other.sort_duration,
     save_duration |-> self.save_duration + other.save_duration]

\* begin.saturating_elapsed(): every timed phase takes one tick of the clock
Elapsed == 1

RECURSIVE KeyBytes(_)
\* the sum of key().len() over the records of a file
KeyBytes(kvs) ==
    IF Len(kvs) = 0 THEN 0 ELSE Len(kvs[1].key) + KeyBytes(Tail(kvs))

RECURSIVE ValueBytes(_)
\* the sum of value().len() over the records of a file
ValueBytes(kvs) ==
    IF Len(kvs) = 0 THEN 0 ELSE Len(kvs[1].value) + ValueBytes(Tail(kvs))

\* the number of bytes read_part yields for a file: its records, stored as they are
StoredLen(kvs) == KeyBytes(kvs) + ValueBytes(kvs)

\* where Source::load can return an error: in the copy from storage through the
\* decoder, in the flush of the decoder, or in the call of iter.next() that
\* follows n records
LoadFailPoints(kvs) ==
    {[phase |-> ph, n |-> 0] : ph \in {"copy", "flush"}}
        \cup {[phase |-> "next", n |-> n] : n \in 0..Len(kvs)}

RECURSIVE LoadRecords(_, _, _)
\* the while loop of Source::load over the first n records: keys_in += 1 and the
\* lengths of the key and of the value are added
LoadRecords(stat, kvs, n) ==
    IF n = 0 THEN stat
    ELSE LET before == LoadRecords(stat, kvs, n - 1)
         IN  [before EXCEPT !.keys_in = @ + 1,
                            !.logical_key_bytes_in = @ + Len(kvs[n].key),
                            !.logical_value_bytes_in = @ + Len(kvs[n].value)]

\* a load that counts the file before it iterates over the records
Source_load_CountsFileFirst(kvs, stat, fail) ==
    LET copied == [stat EXCEPT !.physical_bytes_in = @ + StoredLen(kvs), !.files_in = @ + 1]
    IN  IF fail # None /\ fail[1].phase = "copy" THEN [ret |-> "Err", stat |-> stat]
        ELSE IF fail # None /\ fail[1].phase = "flush" THEN [ret |-> "Err", stat |-> copied]
        ELSE IF fail # None
             THEN [ret |-> "Err", stat |-> LoadRecords(copied, kvs, fail[1].n)]
             ELSE [ret |-> "Ok", stat |-> LoadRecords(copied, kvs, Len(kvs))]

\* Source::load(id, Some(stat), on_key_value): what it returns and what it leaves
\* in *stat. `fail` is None, or the point at which an error is met.
Source_load(kvs, stat, fail) ==
    LET copied == [stat EXCEPT !.physical_bytes_in = @ + StoredLen(kvs)]
    IN  IF fail # None /\ fail[1].phase = "copy" THEN [ret |-> "Err", stat |-> stat]
        ELSE IF fail # None /\ fail[1].phase = "flush" THEN [ret |-> "Err", stat |-> copied]
        ELSE IF fail # None
             THEN [ret |-> "Err", stat |-> LoadRecords(copied, kvs, fail[1].n)]
             ELSE [ret |-> "Ok",
                   stat |-> [LoadRecords(copied, kvs, Len(kvs)) EXCEPT !.files_in = @ + 1]]

\* the LoadStatistic a complete, error-free Source::load of a file fills in
SourceLoadStat(kvs) == Source_load(kvs, LoadStatisticZero, None).stat

\* a merge that takes in the statistic of the first load to complete only
MergeLoadStats_FirstOnly(stat, order, kvs) ==
    IF Len(order) = 0 THEN stat
    ELSE Load_merge_with(stat, SourceLoadStat(kvs[order[1]]))

RECURSIVE MergeLoadStats(_, _, _)
\* load: for (item, stat) in items { ext.with_load_stat(|s| s.merge_with(&stat)) }
MergeLoadStats(stat, order, kvs) ==
    IF Len(order) = 0 THEN stat
    ELSE MergeLoadStats(Load_merge_with(stat, SourceLoadStat(kvs[order[1]])), Tail(order), kvs)

\* info.file_size() of the finished table: the bytes of the pairs put into it
SstFileSize(ps) == KeyBytes(ps) + ValueBytes(ps)

--------------------------------------------------------------------------
(* The worker at rest, and the collector's specification *)

\* CompactWorker::inplace: max_load_concurrency: 16, the worker's own field
inplace_max_load_concurrency == 16

\* #[derive(Default)] CompactLogExt: no sinks, and usize::default() for the limit
CompactLogExt_default ==
    [load_statistic |-> None, compact_statistic |-> None, max_load_concurrency |-> 0]

\* no compaction is running: there is no ext yet, the variable holds the default
WInit0 ==
    /\ c = None
    /\ file_kvs = <<>>
    /\ wpc = "idle"
    /\ loaded = <<>>
    /\ flatten_items = <<>>
    /\ sorted_items = <<>>
    /\ key_buf = <<>>
    /\ last_prefix = None
    /\ puts = <<>>
    /\ uploaded = None
    /\ err = None
    /\ write_calls = 0
    /\ load_statistic = LoadStatisticZero
    /\ compact_statistic = CompactStatisticZero
    /\ max_load_concurrency = CompactLogExt_default.max_load_concurrency
    /\ inflight = {}
    /\ results = <<>>
    /\ attempt = "first"
    /\ first_uploaded = None
    /\ sort_memo = {}

\* the other components at rest
SInit0 ==
    /\ stat_kind = "load"
    /\ stat_ops = <<LoadStatisticZero, LoadStatisticZero, LoadStatisticZero>>
    /\ stat_res = None

\* the Scheduler clones that call schedule
Schedulers == {1, 2}

\* a Scheduler clone that is not inside a schedule call
Idle == [pc |-> "idle", task |-> None, seen |-> 0, net |-> 0]

\* Builder::pending_capacity(1), lazy_build: no task scheduled yet
SchedInit0 ==
    /\ counter = 0
    /\ metrics_pending_task_count = 0
    /\ metrics_handled_task_count = 0
    /\ pending_capacity = 1
    /\ chan = <<>>
    /\ closed = FALSE
    /\ sched = [s \in Schedulers |-> Idle]
    /\ sched_calls = [s \in Schedulers |-> 0]
    /\ returned = {}
    /\ running = None
    /\ ran = <<>>
    /\ runner = "looping"
    /\ shutdown_calls = 0
    /\ timer = "none"

\* TaskPriority
Priorities == {"High", "Medium", "Low"}

\* the callers that spawn into the pool
Callers == {1, 2}

\* a caller that is not inside a spawn call
NotSpawning == [pc |-> "idle", kind |-> "", priority |-> "", task |-> None, seen |-> 0]

\* FuturePool::from_pool(pool, name, 2, 1): nothing spawned yet
PoolInit0 ==
    /\ running_count = [p \in Priorities |-> 0]
    /\ handled_count = 0
    /\ max_tasks = Some(1)
    /\ pool_size = 2
    /\ spawner = [k \in Callers |-> NotSpawning]
    /\ spawn_calls = [k \in Callers |-> 0]
    /\ pool_tasks = {}
    /\ spawn_returned = {}

\* no call of Source::load on its own
LInit0 ==
    /\ load_kvs = <<>>
    /\ load_stat = LoadStatisticZero
    /\ load_fail = None
    /\ load_ret = None

\* no call of cmp_key on its own
KInit0 ==
    /\ cmp_args = <<>>
    /\ cmp_ret = None

\* no resizing call has been made
ScaleInit0 == scale_log = <<>>

\* no SegmentMapManager is registered
GInit0 ==
    /\ seg_map = <<>>
    /\ index_d = <<>>
    /\ index_w = <<>>
    /\ finder = <<>>
    /\ find_calls = 0
    /\ handed_out = {}

XInit0 == SInit0 /\ SchedInit0 /\ PoolInit0 /\ LInit0 /\ KInit0 /\ ScaleInit0 /\ GInit0

\* CollectCompaction::new
CInit ==
    /\ inner = "open"
    /\ inputs = <<>>
    /\ items = <<>>
    /\ last_compactions = None
    /\ ret = Ret("Init", None)
    /\ outputs = <<>>
    /\ errored = FALSE
    /\ open_at_end = None

CollectInit == CInit /\ WInit0 /\ XInit0

CollectNext ==
    \/ PollFinalize
    \/ InnerPending
    \/ InnerNone
    \/ InnerErr
    \/ InnerItem

SpecCollect == CollectInit /\ [][CollectNext]_vars

--------------------------------------------------------------------------
(* CompactWorker: the inputs of one compact_ext run *)

\* the source files of the Compaction being compacted
Sources == {1, 2}
\* the keys and values a record of a log file can carry
RecordKeys == {<<1>>, <<1, 1>>, <<1, 2>>, <<2>>}
RecordValues == {<<10>>, <<20>>}
KVs == [key : RecordKeys, value : RecordValues]
\* the key bounds of the Compaction: common prefix <<1>>, or no common prefix
CompactionKeyBounds == {<< <<1>>, <<1, 2>> >>, << <<1>>, <<2>> >>}

\* the Arc<[u8]> allocation made by load: `ptr` is its address
PrefixHandle(ptr, bytes) == [ptr |-> ptr, bytes |-> bytes]

\* k.strip_prefix(prefix): Option<&[u8]>
strip_prefix(k, prefix) ==
    IF Len(k) >= Len(prefix) /\ SubSeq(k, 1, Len(prefix)) = prefix
    THEN Some(SubSeq(k, Len(prefix) + 1, Len(k)))
    ELSE None

\* load: the common prefix of the Compaction's key bounds, shared by every record
CommonPrefix(comp) ==
    PrefixHandle(1, SubSeq(comp.min_key, 1, common_prefix_len(comp.min_key, comp.max_key)))

\* the closure given to Source::load: the Record pushed for one key/value
MakeRecord(prefix, kv) ==
    [prefix |-> prefix, key |-> strip_prefix(kv.key, prefix.bytes)[1], value |-> kv.value]

\* a comparison that stops at the prefixes when the handles differ
cmp_key_PrefixOnly(r1, r2) ==
    IF r1.prefix.ptr = r2.prefix.ptr
    THEN BytesCmp(r1.key, r2.key)
    ELSE BytesCmp(r1.prefix.bytes, r2.prefix.bytes)

\* Record::cmp_key
cmp_key(r1, r2) ==
    IF r1.prefix.ptr = r2.prefix.ptr
    THEN BytesCmp(r1.key, r2.key)
    ELSE LET p == BytesCmp(r1.prefix.bytes, r2.prefix.bytes)
         IN  IF p # "Equal" THEN p ELSE BytesCmp(r1.key, r2.key)

RECURSIVE Flatten(_, _)
\* items.flat_map(|v| v.into_iter()).collect()
Flatten(vs, n) ==
    IF n = 0 THEN <<>> ELSE Flatten(vs, n - 1) \o vs[n][1]

\* a vector left in the order it was flattened in
sort_unstable_by_Unsorted(s) == {s}

\* sort_unstable_by(cmp_key): the order of equal elements is unspecified, so every
\* ordered permutation of the vector is a possible outcome
sort_unstable_by(s) ==
    LET n == Len(s)
        perms == {p \in [1..n -> 1..n] : \A i, j \in 1..n : p[i] = p[j] => i = j}
        sorted == {p \in perms : \A i \in 1..n - 1 : cmp_key(s[p[i]], s[p[i + 1]]) # "Greater"}
    IN  {[i \in 1..n |-> s[p[i]]] : p \in sorted}

RECURSIVE DedupFrom(_, _)
\* Vec::dedup_by: an element in the same bucket as the last retained one is removed
DedupFrom(kept, rest) ==
    IF Len(rest) = 0 THEN kept
    ELSE IF Len(kept) > 0 /\ cmp_key(rest[1], kept[Len(kept)]) = "Equal"
         THEN DedupFrom(kept, Tail(rest))
         ELSE DedupFrom(Append(kept, rest[1]), Tail(rest))

RECURSIVE DedupLastFrom(_, _)
DedupLastFrom(kept, rest) ==
    IF Len(rest) = 0 THEN kept
    ELSE IF Len(kept) > 0 /\ cmp_key(rest[1], kept[Len(kept)]) = "Equal"
         THEN DedupLastFrom(Append(SubSeq(kept, 1, Len(kept) - 1), rest[1]), Tail(rest))
         ELSE DedupLastFrom(Append(kept, rest[1]), Tail(rest))

RECURSIVE DedupFirstByteFrom(_, _)
DedupFirstByteFrom(kept, rest) ==
    IF Len(rest) = 0 THEN kept
    ELSE IF Len(kept) > 0
            /\ (rest[1].prefix.bytes \o rest[1].key)[1]
                  = (kept[Len(kept)].prefix.bytes \o kept[Len(kept)].key)[1]
         THEN DedupFirstByteFrom(kept, Tail(rest))
         ELSE DedupFirstByteFrom(Append(kept, rest[1]), Tail(rest))

\* a dedup that takes two keys with the same first byte for one key
dedup_by_FirstByte(s) == DedupFirstByteFrom(<<>>, s)

\* a dedup that keeps the last element of every run of equal keys
dedup_by_KeepLast(s) == DedupLastFrom(<<>>, s)

\* a merge that removes nothing
dedup_by_Nothing(s) == s

\* flatten_items.dedup_by(|k1, k2| k1.cmp_key(&k2) == Equal)
dedup_by(s) == DedupFrom(<<>>, s)

\* a key buffer that is never truncated before the suffix is appended
KeyBufFor_NoTruncate(buf, last, item) ==
    IF last = Some(item.prefix.ptr)
    THEN buf \o item.key
    ELSE item.prefix.bytes \o item.key

\* write_sst: the key buffer after the prefix check and key_buf.append(&mut item.key)
KeyBufFor(buf, last, item) ==
    IF last = Some(item.prefix.ptr)
    THEN SubSeq(buf, 1, MinNat(Len(buf), Len(item.prefix.bytes))) \o item.key
    ELSE item.prefix.bytes \o item.key

\* format!("{}-{}-{}.sst", c.region_id, c.min_ts, c.max_ts)
OutName(comp) == <<comp.region_id, "-", comp.min_ts, "-", comp.max_ts, ".sst">>

--------------------------------------------------------------------------
(* CompactWorker::compact_ext, one action per step between suspension points *)

AllLoaded == \A f \in Sources : loaded[f] # None

\* the compact_ext future is dropped after load returned: its locals go with it
DropLocals ==
    /\ loaded' = [f \in Sources |-> None]
    /\ inflight' = {}
    /\ results' = <<>>
    /\ flatten_items' = <<>>
    /\ sorted_items' = <<>>
    /\ key_buf' = <<>>
    /\ last_prefix' = None
    /\ puts' = <<>>

\* load: eext.max_concurrency = ext.max_load_concurrency; the worker's own field
\* is not read
eext_max_concurrency == max_load_concurrency

\* execute_all_ext may start one more task
LoadPermit == Cardinality(inflight) < eext_max_concurrency

\* a helper that starts every task at once
StartLoad_Unbounded ==
    /\ wpc = "load"
    /\ \E f \in Sources :
          /\ loaded[f] = None
          /\ f \notin inflight
          /\ inflight' = inflight \cup {f}
    /\ UNCHANGED <<c, file_kvs, wpc, loaded, flatten_items, sorted_items, key_buf,
                   last_prefix, puts, uploaded, err, write_calls, load_statistic,
                   compact_statistic, max_load_concurrency, results, attempt,
                   first_uploaded, sort_memo, cvars, xvars>>

\* execute_all_ext takes the next load task, in the order of c.source, while fewer
\* than max_concurrency tasks are in flight
StartLoad ==
    /\ wpc = "load"
    /\ LoadPermit
    /\ \E f \in Sources :
          /\ loaded[f] = None
          /\ f \notin inflight
          /\ \A g \in Sources : g < f => (loaded[g] # None \/ g \in inflight)
          /\ inflight' = inflight \cup {f}
    /\ UNCHANGED <<c, file_kvs, wpc, loaded, flatten_items, sorted_items, key_buf,
                   last_prefix, puts, uploaded, err, write_calls, load_statistic,
                   compact_statistic, max_load_concurrency, results, attempt,
                   first_uploaded, sort_memo, cvars, xvars>>

\* one load task runs to completion: every record of the file is pushed with its
\* key stripped of the common prefix; unwrap() panics on a key without the prefix
LoadFile ==
    /\ wpc = "load"
    /\ \E f \in inflight :
          LET prefix == CommonPrefix(c)
              kvs == file_kvs[f]
          IN  IF \A i \in 1..Len(kvs) : strip_prefix(kvs[i].key, prefix.bytes) # None
              THEN /\ loaded' = [loaded EXCEPT ![f] =
                                   Some([i \in 1..Len(kvs) |-> MakeRecord(prefix, kvs[i])])]
                   /\ results' = Append(results, f)
                   /\ inflight' = inflight \ {f}
                   /\ wpc' = wpc
              ELSE /\ wpc' = "panicked"
                   /\ inflight' = {}
                   /\ UNCHANGED <<loaded, results>>
    /\ UNCHANGED <<c, file_kvs, flatten_items, sorted_items, key_buf, last_prefix, puts,
                   uploaded, err, write_calls, load_statistic, compact_statistic,
                   max_load_concurrency, attempt, first_uploaded, sort_memo, cvars, xvars>>

\* a failed load that is taken for a file without records
LoadFail_Swallowed ==
    /\ wpc = "load"
    /\ \E f \in inflight :
          /\ loaded' = [loaded EXCEPT ![f] = Some(<<>>)]
          /\ results' = Append(results, f)
          /\ inflight' = inflight \ {f}
    /\ err' = Some("load")
    /\ UNCHANGED <<c, file_kvs, wpc, flatten_items, sorted_items, key_buf, last_prefix,
                   puts, uploaded, write_calls, load_statistic, compact_statistic,
                   max_load_concurrency, attempt, first_uploaded, sort_memo, cvars, xvars>>

\* Source::load returns an error (read, decompression or decode): execute_all_ext
\* returns it, dropping the tasks still in flight, and load returns it
LoadFail ==
    /\ wpc = "load"
    /\ inflight # {}
    /\ inflight' = {}
    /\ wpc' = "failed"
    /\ err' = Some("load")
    /\ UNCHANGED <<c, file_kvs, loaded, flatten_items, sorted_items, key_buf, last_prefix,
                   puts, uploaded, write_calls, load_statistic, compact_statistic,
                   max_load_concurrency, results, attempt, first_uploaded, sort_memo,
                   cvars, xvars>>

\* load merges the per-file statistics and returns; merge_and_sort flattens and
\* sorts, up to yield_now().await. The sort is a function of the vector it is given.
MergeSort ==
    /\ wpc = "load"
    /\ AllLoaded
    /\ load_statistic' = MergeLoadStats(load_statistic, results, file_kvs)
    /\ compact_statistic' = [compact_statistic EXCEPT !.load_duration = @ + Elapsed]
    /\ LET flat == Flatten([i \in 1..Len(results) |-> loaded[results[i]]], Len(results))
       IN  \E out \in sort_unstable_by(flat) :
              /\ \A m \in sort_memo : m.given = flat => m.made = out
              /\ flatten_items' = out
              /\ sort_memo' = sort_memo \cup {[given |-> flat, made |-> out]}
    /\ loaded' = [f \in Sources |-> None]
    /\ results' = <<>>
    /\ wpc' = "sorted"
    /\ UNCHANGED <<c, file_kvs, sorted_items, key_buf, last_prefix, puts, uploaded, err,
                   write_calls, max_load_concurrency, inflight, attempt, first_uploaded,
                   cvars, xvars>>

\* merge_and_sort deduplicates and returns; write_sst builds the writer
Dedup ==
    /\ wpc = "sorted"
    /\ sorted_items' = dedup_by(flatten_items)
    /\ flatten_items' = <<>>
    /\ compact_statistic' = [compact_statistic EXCEPT !.sort_duration = @ + Elapsed]
    /\ key_buf' = <<>>
    /\ last_prefix' = None
    /\ wpc' = "write"
    /\ UNCHANGED <<c, file_kvs, loaded, puts, uploaded, err, write_calls, load_statistic,
                   max_load_concurrency, inflight, results, attempt, first_uploaded,
                   sort_memo, cvars, xvars>>

\* one turn of write_sst's loop: rebuild the full key, put it and count its bytes
WritePut ==
    /\ wpc = "write"
    /\ sorted_items # <<>>
    /\ LET item == Head(sorted_items)
           buf == KeyBufFor(key_buf, last_prefix, item)
       IN  /\ key_buf' = buf
           /\ last_prefix' = Some(item.prefix.ptr)
           /\ puts' = Append(puts, [key |-> buf, value |-> item.value])
           /\ compact_statistic' =
                 [compact_statistic EXCEPT
                     !.logical_key_bytes_out = @ + Len(buf),
                     !.logical_value_bytes_out = @ + Len(item.value)]
    /\ sorted_items' = Tail(sorted_items)
    /\ UNCHANGED <<c, file_kvs, wpc, loaded, flatten_items, uploaded, err, write_calls,
                   load_statistic, max_load_concurrency, inflight, results, attempt,
                   first_uploaded, sort_memo, cvars, xvars>>

\* a failed table writer whose unfinished table is uploaded all the same
WriteFail_UploadsPartial ==
    /\ wpc = "write"
    /\ wpc' = "failed"
    /\ err' = Some("write")
    /\ write_calls' = write_calls + 1
    /\ uploaded' = Some([name |-> OutName(c), content |-> puts])
    /\ DropLocals
    /\ UNCHANGED <<c, file_kvs, load_statistic, compact_statistic, max_load_concurrency,
                   attempt, first_uploaded, sort_memo, cvars, xvars>>

\* the table writer returns an error from build, put or finish_read
WriteFail ==
    /\ wpc = "write"
    /\ wpc' = "failed"
    /\ err' = Some("write")
    /\ DropLocals
    /\ UNCHANGED <<c, file_kvs, uploaded, write_calls, load_statistic, compact_statistic,
                   max_load_concurrency, attempt, first_uploaded, sort_memo, cvars, xvars>>

\* w.finish_read() after the last record, and write_sst returns
WriteFinish ==
    /\ wpc = "write"
    /\ sorted_items = <<>>
    /\ compact_statistic' =
          [compact_statistic EXCEPT
              !.keys_out = @ + Len(puts),
              !.physical_bytes_out = @ + SstFileSize(puts),
              !.write_sst_duration = @ + Elapsed]
    /\ wpc' = "upload"
    /\ UNCHANGED <<c, file_kvs, loaded, flatten_items, sorted_items, key_buf, last_prefix,
                   puts, uploaded, err, write_calls, load_statistic, max_load_concurrency,
                   inflight, results, attempt, first_uploaded, sort_memo, cvars, xvars>>

\* self.output.write(&out_name, ..) succeeds
Upload ==
    /\ wpc = "upload"
    /\ write_calls' = write_calls + 1
    /\ uploaded' = Some([name |-> OutName(c), content |-> puts])
    /\ compact_statistic' = [compact_statistic EXCEPT !.save_duration = @ + Elapsed]
    /\ wpc' = "done"
    /\ UNCHANGED <<c, file_kvs, loaded, flatten_items, sorted_items, key_buf, last_prefix,
                   puts, err, load_statistic, max_load_concurrency, inflight, results,
                   attempt, first_uploaded, sort_memo, cvars, xvars>>

\* self.output.write(&out_name, ..) fails
UploadFail ==
    /\ wpc = "upload"
    /\ write_calls' = write_calls + 1
    /\ wpc' = "failed"
    /\ err' = Some("upload")
    /\ DropLocals
    /\ UNCHANGED <<c, file_kvs, uploaded, load_statistic, compact_statistic,
                   max_load_concurrency, attempt, first_uploaded, sort_memo, cvars, xvars>>

\* the caller drops the compact_ext future at one of its suspension points
Abandon ==
    /\ wpc \in {"load", "sorted", "write", "upload"}
    /\ wpc' = "dropped"
    /\ DropLocals
    /\ UNCHANGED <<c, file_kvs, uploaded, err, write_calls, load_statistic,
                   compact_statistic, max_load_concurrency, attempt, first_uploaded,
                   sort_memo, cvars, xvars>>

\* the values ext.max_load_concurrency takes: one load at a time, or both at once
LoadConcurrencies == {1, 2}

\* the start of a compact_ext run on c
RunStart ==
    /\ wpc = "load"
    /\ loaded = [f \in Sources |-> None]
    /\ inflight = {}
    /\ results = <<>>
    /\ flatten_items = <<>>
    /\ sorted_items = <<>>
    /\ key_buf = <<>>
    /\ last_prefix = None
    /\ puts = <<>>
    /\ err = None
    /\ write_calls = 0

\* what the two source files decode to: MaxRecs records between them
FileContents ==
    UNION {{<<kv1, kv2>> : kv1 \in [1..n[1] -> KVs], kv2 \in [1..n[2] -> KVs]} :
              n \in {m \in (0..MaxRecs) \X (0..MaxRecs) : m[1] + m[2] <= MaxRecs}}

\* source files of at most one record each
SingleRecordContents ==
    {<<kv1, kv2>> : kv1 \in {<<>>} \cup [{1} -> KVs], kv2 \in {<<>>} \cup [{1} -> KVs]}

\* a Compaction of the two source files, what the files decode to, and the limit
\* the caller's ext carries
CompactInitWith(contents, concurrencies) ==
    /\ CInit
    /\ XInit0
    /\ \E kb \in CompactionKeyBounds :
          c = [source |-> <<1, 2>>, size |-> 200 * MiB, region_id |-> 1, cf |-> "default",
               min_ts |-> 1, max_ts |-> 2, min_key |-> kb[1], max_key |-> kb[2]]
    /\ file_kvs \in contents
    /\ max_load_concurrency \in concurrencies
    /\ RunStart
    /\ uploaded = None
    /\ load_statistic = LoadStatisticZero
    /\ compact_statistic = CompactStatisticZero
    /\ attempt = "first"
    /\ first_uploaded = None
    /\ sort_memo = {}

\* a run whose caller has set ext.max_load_concurrency
CompactInitOver(contents) == CompactInitWith(contents, LoadConcurrencies)

CompactInit == CompactInitOver(FileContents)

CompactNext ==
    \/ StartLoad
    \/ LoadFile
    \/ LoadFail
    \/ MergeSort
    \/ Dedup
    \/ WritePut
    \/ WriteFail
    \/ WriteFinish
    \/ Upload
    \/ UploadFail
    \/ Abandon

SpecCompact == CompactInit /\ [][CompactNext]_vars

\* the scheduling of the load phase: the executor polls every task that can make
\* progress, so a task that may start is started and a task in flight completes
\* unless the run ends first
SpecLoadFair ==
    /\ CompactInitOver(SingleRecordContents)
    /\ [][CompactNext]_vars
    /\ WF_vars(StartLoad)
    /\ WF_vars(LoadFile)

\* the caller calls compact_ext again on the same Compaction, the source files
\* unchanged, once the first call has returned
Retry ==
    /\ attempt = "first"
    /\ wpc \in {"done", "failed"}
    /\ attempt' = "retry"
    /\ first_uploaded' = uploaded
    /\ wpc' = "load"
    /\ err' = None
    /\ write_calls' = 0
    /\ DropLocals
    /\ UNCHANGED <<c, file_kvs, uploaded, load_statistic, compact_statistic,
                   max_load_concurrency, sort_memo, cvars, xvars>>

RetryInit == CompactInitOver(SingleRecordContents)

RetryNext == CompactNext \/ Retry

SpecRetry == RetryInit /\ [][RetryNext]_vars

\* runs on a worker built by inplace whose caller passes CompactLogExt::default(),
\* next to runs whose caller has set the limit
DefaultExtInit ==
    CompactInitWith(SingleRecordContents,
                    {CompactLogExt_default.max_load_concurrency} \cup LoadConcurrencies)

SpecDefaultExt == DefaultExtInit /\ [][CompactNext]_vars

--------------------------------------------------------------------------
(* Source::load called on one file with a statistic of the caller *)

\* bound on the number of records of the file
MaxLoadRecs == 2

\* the files: up to MaxLoadRecs records
LoadContents == UNION {[1..n -> KVs] : n \in 0..MaxLoadRecs}

\* the statistic the caller supplies: fresh, or with a file already counted in it
SuppliedStats ==
    {LoadStatisticZero, Source_load(<< [key |-> <<1>>, value |-> <<10>>] >>, LoadStatisticZero, None).stat}

\* the call: *stat and the value returned
SourceLoad ==
    /\ load_ret = None
    /\ LET r == Source_load(load_kvs, load_stat, load_fail)
       IN  /\ load_stat' = r.stat
           /\ load_ret' = Some(r.ret)
    /\ UNCHANGED <<load_kvs, load_fail, kvars, scale_log, gvars, cvars, wvars, svars, schvars,
                   fpvars>>

SourceLoadInit ==
    /\ CInit
    /\ WInit0
    /\ SInit0
    /\ SchedInit0
    /\ PoolInit0
    /\ KInit0
    /\ ScaleInit0
    /\ GInit0
    /\ load_kvs \in LoadContents
    /\ load_stat \in SuppliedStats
    /\ load_fail \in {None} \cup {Some(pt) : pt \in LoadFailPoints(load_kvs)}
    /\ load_ret = None

SourceLoadNext == SourceLoad

SpecSourceLoad == SourceLoadInit /\ [][SourceLoadNext]_vars

--------------------------------------------------------------------------
(* Record::cmp_key called on two records *)

\* the prefix allocations: two of them hold the same bytes
PrefixHandles ==
    {PrefixHandle(1, <<1>>), PrefixHandle(2, <<1>>), PrefixHandle(3, <<1, 2>>), PrefixHandle(4, <<>>)}

\* the prefix-relative keys
RelativeKeys == {<<>>, <<1>>, <<2>>, <<2, 1>>}

CmpRecords == [prefix : PrefixHandles, key : RelativeKeys, value : {<<10>>}]

\* self.cmp_key(other)
CmpKey ==
    /\ cmp_ret = None
    /\ cmp_ret' = Some(cmp_key(cmp_args[1], cmp_args[2]))
    /\ UNCHANGED <<cmp_args, lvars, scale_log, gvars, cvars, wvars, svars, schvars, fpvars>>

CmpKeyInit ==
    /\ CInit
    /\ WInit0
    /\ SInit0
    /\ SchedInit0
    /\ PoolInit0
    /\ LInit0
    /\ ScaleInit0
    /\ GInit0
    /\ cmp_args \in CmpRecords \X CmpRecords
    /\ cmp_ret = None

CmpKeyNext == CmpKey

SpecCmpKey == CmpKeyInit /\ [][CmpKeyNext]_vars

--------------------------------------------------------------------------
(* Merging statistics: merge_with applied to three statistics a, b, c *)

\* the values a counter or a duration of a merged statistic holds
StatValues == {0, 1}

LoadStatistics ==
    [files_in : StatValues, keys_in : StatValues, physical_bytes_in : StatValues,
     logical_key_bytes_in : StatValues, logical_value_bytes_in : StatValues]

\* the four durations of a run are multiples of one tick count
CompactStatistics ==
    {[keys_out |-> k, physical_bytes_out |-> p, logical_key_bytes_out |-> lk,
      logical_value_bytes_out |-> lv, write_sst_duration |-> d, load_duration |-> 2 * d,
      sort_duration |-> 3 * d, save_duration |-> 4 * d] :
        k \in StatValues, p \in StatValues, lk \in StatValues, lv \in StatValues,
        d \in StatValues}

\* let mut x = a; x.merge_with(&b); ... on LoadStatistics, in both groupings and
\* both orders
LoadMergeResults(ops) ==
    [ab_c |-> Load_merge_with(Load_merge_with(ops[1], ops[2]), ops[3]),
     a_bc |-> Load_merge_with(ops[1], Load_merge_with(ops[2], ops[3])),
     ab |-> Load_merge_with(ops[1], ops[2]),
     ba |-> Load_merge_with(ops[2], ops[1]),
     a_zero |-> Load_merge_with(ops[1], LoadStatisticZero),
     zero_a |-> Load_merge_with(LoadStatisticZero, ops[1])]

\* the same on CompactStatistics
CompactMergeResults(ops) ==
    [ab_c |-> Compact_merge_with(Compact_merge_with(ops[1], ops[2]), ops[3]),
     a_bc |-> Compact_merge_with(ops[1], Compact_merge_with(ops[2], ops[3])),
     ab |-> Compact_merge_with(ops[1], ops[2]),
     ba |-> Compact_merge_with(ops[2], ops[1]),
     a_zero |-> Compact_merge_with(ops[1], CompactStatisticZero),
     zero_a |-> Compact_merge_with(CompactStatisticZero, ops[1])]

MergeLoad ==
    /\ stat_kind = "load"
    /\ stat_res = None
    /\ stat_res' = Some(LoadMergeResults(stat_ops))
    /\ UNCHANGED <<stat_kind, stat_ops, cvars, wvars, pvars, schvars, fpvars>>

MergeCompact ==
    /\ stat_kind = "compact"
    /\ stat_res = None
    /\ stat_res' = Some(CompactMergeResults(stat_ops))
    /\ UNCHANGED <<stat_kind, stat_ops, cvars, wvars, pvars, schvars, fpvars>>

StatsInit ==
    /\ CInit
    /\ WInit0
    /\ LInit0
    /\ KInit0
    /\ ScaleInit0
    /\ GInit0
    /\ SchedInit0
    /\ PoolInit0
    /\ \/ stat_kind = "load" /\ stat_ops \in LoadStatistics \X LoadStatistics \X LoadStatistics
       \/ /\ stat_kind = "compact"
          /\ stat_ops \in CompactStatistics \X CompactStatistics \X CompactStatistics
    /\ stat_res = None

StatsNext == MergeLoad \/ MergeCompact

SpecStats == StatsInit /\ [][StatsNext]_vars

--------------------------------------------------------------------------
(* tikv_util::worker: Scheduler::schedule, Scheduler::stop and the runner's loop. *)
(* Every atomic operation of schedule is a step of its own; the gauge is moved    *)
(* in the step of the counter it follows.                                         *)

\* the number of schedule calls one Scheduler clone makes
MaxSchedule == 2

\* the values Builder::pending_capacity is given
Capacities == {1, 2}

\* the schedule call of clone s that has returned `result`
Returned(s, result) ==
    [scheduler |-> s, task |-> sched[s].task[1], result |-> result,
     seen |-> sched[s].seen, net |-> sched[s].net]

\* schedule: counter.load(Acquire) >= pending_capacity returns Full(task)
ScheduleLoad(s) ==
    /\ sched[s].pc = "idle"
    /\ sched_calls[s] < MaxSchedule
    /\ sched_calls' = [sched_calls EXCEPT ![s] = @ + 1]
    /\ LET call == [pc |-> "loaded", task |-> Some(<<s, sched_calls[s] + 1>>),
                    seen |-> counter, net |-> 0]
       IN  IF counter >= pending_capacity
           THEN /\ returned' = returned \cup
                      {[scheduler |-> s, task |-> call.task[1], result |-> "Full",
                        seen |-> counter, net |-> 0]}
                /\ sched' = sched
           ELSE /\ sched' = [sched EXCEPT ![s] = call]
                /\ returned' = returned
    /\ UNCHANGED <<counter, metrics_pending_task_count, metrics_handled_task_count,
                   pending_capacity, chan, closed, running, ran, rvars, cvars, wvars, pvars, svars, fpvars>>

\* schedule_force: counter.fetch_add(1, SeqCst); metrics_pending_task_count.inc()
ScheduleAdd(s) ==
    /\ sched[s].pc = "loaded"
    /\ counter' = counter + 1
    /\ metrics_pending_task_count' = metrics_pending_task_count + 1
    /\ sched' = [sched EXCEPT ![s].pc = "added", ![s].net = @ + 1]
    /\ UNCHANGED <<metrics_handled_task_count, pending_capacity, chan, closed, sched_calls,
                   returned, running, ran, rvars, cvars, wvars, pvars, svars, fpvars>>

\* schedule_force: sender.unbounded_send(Msg::Task(task)), Ok(()) when it is taken
ScheduleSend(s) ==
    /\ sched[s].pc = "added"
    /\ IF closed
       THEN /\ sched' = [sched EXCEPT ![s].pc = "refused"]
            /\ UNCHANGED <<chan, returned>>
       ELSE /\ chan' = Append(chan, sched[s].task[1])
            /\ returned' = returned \cup {Returned(s, "Ok")}
            /\ sched' = [sched EXCEPT ![s] = Idle]
    /\ UNCHANGED <<counter, metrics_pending_task_count, metrics_handled_task_count,
                   pending_capacity, closed, sched_calls, running, ran, rvars, cvars, wvars, pvars, svars, fpvars>>

\* a refused send that returns Stopped without taking its increment back
ScheduleUndo_NoFetchSub(s) ==
    /\ sched[s].pc = "refused"
    /\ returned' = returned \cup {Returned(s, "Stopped")}
    /\ sched' = [sched EXCEPT ![s] = Idle]
    /\ UNCHANGED <<counter, metrics_pending_task_count, metrics_handled_task_count,
                   pending_capacity, chan, closed, sched_calls, running, ran, rvars, cvars, wvars, pvars,
                   svars, fpvars>>

\* schedule_force: the send was refused: counter.fetch_sub(1, SeqCst);
\* metrics_pending_task_count.dec(); return Err(Stopped(t))
ScheduleUndo(s) ==
    /\ sched[s].pc = "refused"
    /\ counter' = counter - 1
    /\ metrics_pending_task_count' = metrics_pending_task_count - 1
    /\ returned' = returned \cup
          {[Returned(s, "Stopped") EXCEPT !.net = sched[s].net - 1]}
    /\ sched' = [sched EXCEPT ![s] = Idle]
    /\ UNCHANGED <<metrics_handled_task_count, pending_capacity, chan, closed, sched_calls,
                   running, ran, rvars, cvars, wvars, pvars, svars, fpvars>>

\* Scheduler::stop: self.sender.close_channel()
Stop ==
    /\ ~closed
    /\ closed' = TRUE
    /\ UNCHANGED <<counter, metrics_pending_task_count, metrics_handled_task_count,
                   pending_capacity, chan, sched, sched_calls, returned, running, ran,
                   rvars, cvars, wvars, pvars, svars, fpvars>>

\* Msg::Timeout in the channel; the tasks are pairs <<scheduler, call number>> of
\* positive numbers
TimeoutMsg == <<0, 0>>

\* the delay set by delay_notify elapses: let _ = tx.unbounded_send(Msg::Timeout)
TimerFire ==
    /\ timer = "armed"
    /\ IF closed
       THEN timer' = "spent" /\ chan' = chan
       ELSE timer' = "queued" /\ chan' = Append(chan, TimeoutMsg)
    /\ UNCHANGED <<counter, metrics_pending_task_count, metrics_handled_task_count,
                   pending_capacity, closed, sched, sched_calls, returned, running, ran,
                   runner, shutdown_calls, cvars, wvars, pvars, svars, fpvars>>

\* the runner: receiver.next().await yields Msg::Timeout: handle.inner.on_timeout()
\* and delay_notify(tx.clone(), handle.inner.get_interval())
RunnerTimeout ==
    /\ runner = "looping"
    /\ running = None
    /\ chan # <<>>
    /\ Head(chan) = TimeoutMsg
    /\ chan' = Tail(chan)
    /\ timer' = "armed"
    /\ UNCHANGED <<counter, metrics_pending_task_count, metrics_handled_task_count,
                   pending_capacity, closed, sched, sched_calls, returned, running, ran,
                   runner, shutdown_calls, cvars, wvars, pvars, svars, fpvars>>

\* a runner that leaves its loop as soon as the channel is closed
RunnerExit_LeavesQueued ==
    /\ runner = "looping"
    /\ running = None
    /\ closed
    /\ runner' = "finished"
    /\ shutdown_calls' = shutdown_calls + 1
    /\ UNCHANGED <<counter, metrics_pending_task_count, metrics_handled_task_count,
                   pending_capacity, chan, closed, sched, sched_calls, returned, running, ran,
                   timer, cvars, wvars, pvars, svars, fpvars>>

\* the runner: receiver.next().await yields None, the channel being closed and
\* empty: the loop ends, the future drops `handle`, and RunnableWrapper::drop calls
\* inner.shutdown()
RunnerExit ==
    /\ runner = "looping"
    /\ running = None
    /\ closed
    /\ chan = <<>>
    /\ runner' = "finished"
    /\ shutdown_calls' = shutdown_calls + 1
    /\ UNCHANGED <<counter, metrics_pending_task_count, metrics_handled_task_count,
                   pending_capacity, chan, closed, sched, sched_calls, returned, running, ran,
                   timer, cvars, wvars, pvars, svars, fpvars>>

\* the runner: receiver.next().await yields Msg::Task(task); handle.inner.run(task)
RunnerRecv ==
    /\ runner = "looping"
    /\ running = None
    /\ chan # <<>>
    /\ Head(chan) # TimeoutMsg
    /\ running' = Some(Head(chan))
    /\ chan' = Tail(chan)
    /\ UNCHANGED <<counter, metrics_pending_task_count, metrics_handled_task_count,
                   pending_capacity, closed, sched, sched_calls, returned, ran, rvars, cvars,
                   wvars, pvars, svars, fpvars>>

\* a runner that does not take the task off the counter
RunnerDone_KeepsCounter ==
    /\ running # None
    /\ ran' = Append(ran, running[1])
    /\ running' = None
    /\ metrics_handled_task_count' = metrics_handled_task_count + 1
    /\ UNCHANGED <<counter, metrics_pending_task_count, pending_capacity, chan, closed,
                   sched, sched_calls, returned, rvars, cvars, wvars, pvars, svars, fpvars>>

\* the runner, after run returned: counter.fetch_sub(1, SeqCst);
\* metrics_pending_task_count.dec(); metrics_handled_task_count.inc()
RunnerDone ==
    /\ running # None
    /\ ran' = Append(ran, running[1])
    /\ running' = None
    /\ counter' = counter - 1
    /\ metrics_pending_task_count' = metrics_pending_task_count - 1
    /\ metrics_handled_task_count' = metrics_handled_task_count + 1
    /\ UNCHANGED <<pending_capacity, chan, closed, sched, sched_calls, returned, rvars, cvars,
                   wvars, pvars, svars, fpvars>>

\* Builder::pending_capacity(..).create(), lazy_build and start: an empty channel
SchedInit ==
    /\ CInit
    /\ WInit0
    /\ LInit0
    /\ KInit0
    /\ ScaleInit0
    /\ GInit0
    /\ SInit0
    /\ PoolInit0
    /\ counter = 0
    /\ metrics_pending_task_count = 0
    /\ metrics_handled_task_count = 0
    /\ pending_capacity \in Capacities
    /\ chan = <<>>
    /\ closed = FALSE
    /\ sched = [s \in Schedulers |-> Idle]
    /\ sched_calls = [s \in Schedulers |-> 0]
    /\ returned = {}
    /\ running = None
    /\ ran = <<>>
    /\ runner = "looping"
    /\ shutdown_calls = 0
    /\ timer \in {"none", "armed"}

SchedNext ==
    \/ \E s \in Schedulers :
          \/ ScheduleLoad(s)
          \/ ScheduleAdd(s)
          \/ ScheduleSend(s)
          \/ ScheduleUndo(s)
    \/ Stop
    \/ TimerFire
    \/ RunnerTimeout
    \/ RunnerRecv
    \/ RunnerDone
    \/ RunnerExit

SpecSched == SchedInit /\ [][SchedNext]_vars

\* a worker built with pending_capacity(1)
SchedFairInit == SchedInit /\ pending_capacity = 1

\* the pool polls the runner's future whenever the channel wakes it, so a step of
\* the runner that stays possible is taken
SpecSchedFair ==
    /\ SchedFairInit
    /\ [][SchedNext]_vars
    /\ WF_vars(RunnerRecv)
    /\ WF_vars(RunnerDone)
    /\ WF_vars(RunnerTimeout)
    /\ WF_vars(RunnerExit)

--------------------------------------------------------------------------
(* tikv_util::yatp_pool: FuturePool::spawn, spawn_with_extras and spawn_handle. *)
(* The read of the gauge, its increment and the hand-over to the yatp pool are  *)
(* steps of their own; a spawned future finishes in one step.                   *)

\* the number of spawn calls one caller makes
MaxSpawn == 2

\* max_tasks is an Option: None stands for usize::MAX, no limit
Unlimited == None

\* the finite values of max_tasks
TaskLimits == {Some(1), Some(2)}

\* the calls of the pool and the priority each counts its task under: spawn and
\* spawn_handle Medium, spawn_with_extras the priority of the task's metadata
SpawnCalls ==
    {[kind |-> "spawn", priority |-> "Medium"],
     [kind |-> "spawn_handle", priority |-> "Medium"]}
        \cup {[kind |-> "spawn_with_extras", priority |-> p] : p \in Priorities}

\* PoolInner::gate_spawn
gate_spawn(current_tasks, limit) ==
    IF limit = Unlimited THEN "Ok"
    ELSE IF current_tasks >= limit[1] THEN "Full" ELSE "Ok"

\* spawn / spawn_handle: self.gate_spawn(metrics_running_task_count.get())?
SpawnGate(k) ==
    /\ spawner[k].pc = "idle"
    /\ spawn_calls[k] < MaxSpawn
    /\ spawn_calls' = [spawn_calls EXCEPT ![k] = @ + 1]
    /\ \E call \in SpawnCalls :
          LET current_tasks == running_count[call.priority]
              task == <<k, spawn_calls[k] + 1>>
          IN  IF gate_spawn(current_tasks, max_tasks) = "Full"
              THEN /\ spawn_returned' = spawn_returned \cup
                         {[task |-> task, kind |-> call.kind, result |-> "Full"]}
                   /\ spawner' = spawner
              ELSE /\ spawner' = [spawner EXCEPT ![k] =
                                    [pc |-> "gated", kind |-> call.kind,
                                     priority |-> call.priority, task |-> Some(task),
                                     seen |-> current_tasks]]
                   /\ spawn_returned' = spawn_returned
    /\ UNCHANGED <<running_count, handled_count, max_tasks, pool_size, pool_tasks,
                   cvars, wvars, pvars, svars, schvars>>

\* spawn / spawn_handle: metrics_running_task_count.inc()
SpawnInc(k) ==
    /\ spawner[k].pc = "gated"
    /\ running_count' = [running_count EXCEPT ![spawner[k].priority] = @ + 1]
    /\ spawner' = [spawner EXCEPT ![k].pc = "counted"]
    /\ UNCHANGED <<handled_count, max_tasks, pool_size, spawn_calls, pool_tasks,
                   spawn_returned, cvars, wvars, pvars, svars, schvars>>

\* spawn / spawn_handle: self.pool.spawn(..) and Ok
SpawnPush(k) ==
    /\ spawner[k].pc = "counted"
    /\ pool_tasks' = pool_tasks \cup
          {[task |-> spawner[k].task[1], priority |-> spawner[k].priority]}
    /\ spawn_returned' = spawn_returned \cup
          {[task |-> spawner[k].task[1], kind |-> spawner[k].kind, result |-> "Ok"]}
    /\ spawner' = [spawner EXCEPT ![k] = NotSpawning]
    /\ UNCHANGED <<running_count, handled_count, max_tasks, pool_size, spawn_calls,
                   cvars, wvars, pvars, svars, schvars>>

\* a spawned future completes: metrics_handled_task_count.inc();
\* metrics_running_task_count.dec()
TaskFinish ==
    /\ \E t \in pool_tasks :
          /\ pool_tasks' = pool_tasks \ {t}
          /\ running_count' = [running_count EXCEPT ![t.priority] = @ - 1]
    /\ handled_count' = handled_count + 1
    /\ UNCHANGED <<max_tasks, pool_size, spawner, spawn_calls, spawn_returned,
                   cvars, wvars, pvars, svars, schvars>>

\* FuturePool::from_pool with a finite max_tasks
PoolInit ==
    /\ CInit
    /\ WInit0
    /\ LInit0
    /\ KInit0
    /\ ScaleInit0
    /\ GInit0
    /\ SInit0
    /\ SchedInit0
    /\ running_count = [p \in Priorities |-> 0]
    /\ handled_count = 0
    /\ max_tasks \in TaskLimits
    /\ pool_size = 2
    /\ spawner = [k \in Callers |-> NotSpawning]
    /\ spawn_calls = [k \in Callers |-> 0]
    /\ pool_tasks = {}
    /\ spawn_returned = {}

PoolNext ==
    \/ \E k \in Callers :
          \/ SpawnGate(k)
          \/ SpawnInc(k)
          \/ SpawnPush(k)
    \/ TaskFinish

SpecPool == PoolInit /\ [][PoolNext]_vars

\* no other caller is inside a call of the pool
OthersIdle(k) == \A j \in Callers \ {k} : spawner[j].pc = "idle"

\* the callers act one at a time: a call begins when no other call is under way
PoolSeqNext ==
    \/ \E k \in Callers :
          \/ OthersIdle(k) /\ SpawnGate(k)
          \/ SpawnInc(k)
          \/ SpawnPush(k)
    \/ TaskFinish

SpecPoolSeq == PoolInit /\ [][PoolSeqNext]_vars

--------------------------------------------------------------------------
(* FuturePool: scale_pool_size and set_max_tasks_per_worker. usize is a machine *)
(* word of the model whose largest value is usize_MAX; max_tasks holds that     *)
(* value as Unlimited.                                                          *)

\* usize::MAX of the model's machine word
usize_MAX == 7
\* the largest thread count a call passes, and the largest pool built
MaxThreads == 3
\* the largest max_tasks_per_thread a call passes
MaxPerThread == 2
\* the number of resizing calls made on one pool
MaxScaleCalls == 2

\* self.max_tasks.load(..)
max_tasks_load(limit) == IF limit = Unlimited THEN usize_MAX ELSE limit[1]

\* self.max_tasks.store(..)
max_tasks_store(x) == IF x = usize_MAX THEN Unlimited ELSE Some(x)

\* usize::saturating_div: the quotient rounded towards zero
saturating_div(x, y) == x \div y

\* usize::saturating_mul
saturating_mul(x, y) == IF x * y > usize_MAX THEN usize_MAX ELSE x * y

\* PoolInner::scale_pool_size: the limits it leaves
scale_pool_size(limit, size, thread_count) ==
    LET loaded_max_tasks == max_tasks_load(limit)
    IN  [max_tasks |->
            IF loaded_max_tasks # usize_MAX
            THEN max_tasks_store(
                     saturating_mul(saturating_div(loaded_max_tasks, size), thread_count))
            ELSE limit,
         pool_size |-> thread_count]

\* PoolInner::set_max_tasks_per_worker: the limits it leaves
set_max_tasks_per_worker(limit, size, max_tasks_per_thread) ==
    [max_tasks |-> max_tasks_store(saturating_mul(size, max_tasks_per_thread)),
     pool_size |-> size]

\* the limits of the pool
PoolLimits == [max_tasks |-> max_tasks, pool_size |-> pool_size]

\* the entry of scale_log for one resizing call
Resized(op, arg, after) == [op |-> op, arg |-> arg, before |-> PoolLimits, after |-> after]

\* FuturePool::scale_pool_size(thread_count), thread_count positive
ScalePoolSize ==
    /\ Len(scale_log) < MaxScaleCalls
    /\ \E thread_count \in 1..MaxThreads :
          LET after == scale_pool_size(max_tasks, pool_size, thread_count)
          IN  /\ max_tasks' = after.max_tasks
              /\ pool_size' = after.pool_size
              /\ scale_log' = Append(scale_log,
                                     Resized("scale_pool_size", thread_count, after))
    /\ UNCHANGED <<running_count, handled_count, spawner, spawn_calls, pool_tasks,
                   spawn_returned, lvars, kvars, gvars, cvars, wvars, svars, schvars>>

\* FuturePool::set_max_tasks_per_worker(tasks_per_thread)
SetMaxTasksPerWorker ==
    /\ Len(scale_log) < MaxScaleCalls
    /\ \E tasks_per_thread \in 1..MaxPerThread :
          LET after == set_max_tasks_per_worker(max_tasks, pool_size, tasks_per_thread)
          IN  /\ max_tasks' = after.max_tasks
              /\ pool_size' = after.pool_size
              /\ scale_log' = Append(scale_log,
                                     Resized("set_max_tasks_per_worker", tasks_per_thread,
                                             after))
    /\ UNCHANGED <<running_count, handled_count, spawner, spawn_calls, pool_tasks,
                   spawn_returned, lvars, kvars, gvars, cvars, wvars, svars, schvars>>

\* FuturePool::from_pool with any max_tasks and a positive pool_size
ScaleInit ==
    /\ CInit
    /\ WInit0
    /\ LInit0
    /\ KInit0
    /\ ScaleInit0
    /\ GInit0
    /\ SInit0
    /\ SchedInit0
    /\ running_count = [p \in Priorities |-> 0]
    /\ handled_count = 0
    /\ max_tasks \in {max_tasks_store(m) : m \in 0..usize_MAX}
    /\ pool_size \in 1..MaxThreads
    /\ spawner = [k \in Callers |-> NotSpawning]
    /\ spawn_calls = [k \in Callers |-> 0]
    /\ pool_tasks = {}
    /\ spawn_returned = {}

ScaleNext == ScalePoolSize \/ SetMaxTasksPerWorker

SpecScale == ScaleInit /\ [][ScaleNext]_vars

--------------------------------------------------------------------------
(* backup: SegmentMapManager. A SegmentMap is a sequence of levels, a level the *)
(* files of a BTreeMap in key order; levels and idx count from 0 as in the      *)
(* code. find_ssts and release_index each take the lock of index_d for their    *)
(* work on d and then the lock of index_w for their work on w: the time under   *)
(* one lock is one step.                                                        *)

\* number of levels of a SegmentMap
SegLevels == 2
\* number of files of one level
SegFiles == 2
\* the number of find_ssts calls made on one SegmentMapManager
MaxFinds == 2

\* the threads that share one Arc<SegmentMapManager>
SegCallers == {"t1", "t2"}

\* format!("{i}_{j}").into_bytes(), i and j of one digit
level_file_key(i, j) == <<48 + i, 95, 48 + j>>

\* tests::generate_segment_map after generate_index has numbered the files; with
\* open_end the last file of each level has an empty end_key
generate_segment_map(open_end) ==
    [i \in 0..(SegLevels - 1) |->
        [j \in 0..(SegFiles - 1) |->
            [start_key |-> level_file_key(i, j),
             end_key |-> IF open_end /\ j = SegFiles - 1 THEN <<>>
                         ELSE level_file_key(i, j + 1),
             file_name |-> "/asdfg.sst",
             idx |-> j]]]

SegmentMaps == {generate_segment_map(FALSE), generate_segment_map(TRUE)}

\* SegmentMapManager::generate_index
generate_index(map) == [i \in DOMAIN map |-> [j \in DOMAIN map[i] |-> "NotUpload"]]

\* Vec<u8>: a < b
RECURSIVE VecLess(_, _)
VecLess(a, b) ==
    IF Len(b) = 0 THEN FALSE
    ELSE IF Len(a) = 0 THEN TRUE
    ELSE IF a[1] # b[1] THEN a[1] < b[1]
    ELSE VecLess(Tail(a), Tail(b))

\* matches!(lvl_index[idx], SstStatus::NotUpload)
is_not_upload_Always(status) == TRUE

is_not_upload(status) == status = "NotUpload"

\* the filter of find_ssts_internal: the file is free and overlaps the range
find_filter(status, info, start_key, end_key) ==
    /\ is_not_upload(status)
    /\ Len(end_key) = 0 \/ VecLess(info.start_key, end_key)
    /\ Len(info.end_key) = 0 \/ VecLess(start_key, info.end_key)

\* the files of one level the filter lets through, in key order from file j on
RECURSIVE find_level(_, _, _, _, _)
find_level(lvl_index, tree, start_key, end_key, j) ==
    IF j \notin DOMAIN tree THEN <<>>
    ELSE LET rest == find_level(lvl_index, tree, start_key, end_key, j + 1)
         IN  IF find_filter(lvl_index[tree[j].idx], tree[j], start_key, end_key)
             THEN <<(<<tree[j].file_name, tree[j].idx>>)>> \o rest
             ELSE rest

\* the number of files in the levels of res from level i on
RECURSIVE count_from(_, _)
count_from(res, i) ==
    IF i \notin DOMAIN res THEN 0 ELSE Len(res[i]) + count_from(res, i + 1)

\* find_ssts_internal: the index it leaves, and (res, count)
find_ssts_internal(index, map, start_key, end_key) ==
    LET res == [i \in DOMAIN map |-> find_level(index[i], map[i], start_key, end_key, 0)]
        taken(i) == {res[i][n][2] : n \in 1..Len(res[i])}
    IN  [index |-> [i \in DOMAIN index |->
                       [j \in DOMAIN index[i] |->
                           IF j \in taken(i) THEN "Uploading" ELSE index[i][j]]],
         res |-> res,
         count |-> count_from(res, 0)]

\* release_index_internal: the status it gives a file of findex
released_status(level, idx, progress_l, progress_f) ==
    IF level < progress_l \/ (level = progress_l /\ idx <= progress_f)
    THEN "Uploaded" ELSE "NotUpload"

\* release_index_internal: the index it leaves
release_index_internal(index, findex, progress_l, progress_f) ==
    [i \in DOMAIN index |->
        [j \in DOMAIN index[i] |->
            IF i \in DOMAIN findex /\ \E n \in 1..Len(findex[i]) : findex[i][n][2] = j
            THEN released_status(i, j, progress_l, progress_f)
            ELSE index[i][j]]]

\* the start keys a find_ssts call is given: none, or the start of the last file of
\* the first level
FindStartKeys == {<<>>, level_file_key(0, SegFiles - 1)}

\* the end keys a find_ssts call is given: none, or the start of the last file of the
\* last level
FindEndKeys == {<<>>, level_file_key(SegLevels - 1, SegFiles - 1)}

\* the progress points a release_index call is given: the first file of the first
\* level, the first level and the first file of the next, every file
ProgressPoints == {<<0, 0>>, <<1, 0>>, <<SegLevels, 0>>}

\* a caller outside find_ssts and release_index, holding nothing
NotFinding ==
    [pc |-> "idle", start_key |-> <<>>, end_key |-> <<>>, d |-> <<>>, w |-> <<>>,
     count |-> 0]

\* the SSTs of findex, each as a file of one side
Handed(side, findex) ==
    UNION {{[side |-> side, level |-> i, idx |-> findex[i][n][2]] :
               n \in 1..Len(findex[i])} : i \in DOMAIN findex}

\* what handed_out keeps when findex is released with a progress point: the files of
\* findex the progress point does not cover are handed to nobody
StillHanded(side, findex, progress_l, progress_f) ==
    {h \in handed_out :
        ~ /\ h.side = side
          /\ h.level \in DOMAIN findex
          /\ \E n \in 1..Len(findex[h.level]) : findex[h.level][n][2] = h.idx
          /\ released_status(h.level, h.idx, progress_l, progress_f) = "NotUpload"}

\* find_ssts, under the lock of index_d
FindD(k) ==
    /\ finder[k].pc = "idle"
    /\ find_calls < MaxFinds
    /\ find_calls' = find_calls + 1
    /\ \E start_key \in FindStartKeys, end_key \in FindEndKeys :
          LET found == find_ssts_internal(index_d, seg_map[1], start_key, end_key)
          IN  /\ index_d' = found.index
              /\ finder' = [finder EXCEPT ![k] =
                               [pc |-> "find_w",
                                start_key |-> start_key, end_key |-> end_key,
                                d |-> found.res, w |-> <<>>, count |-> found.count]]
              /\ handed_out' = handed_out \cup Handed("d", found.res)
    /\ UNCHANGED <<seg_map, index_w, lvars, kvars, scale_log, cvars, wvars, svars, schvars,
                   fpvars>>

\* find_ssts, under the lock of index_w, and its return
FindW(k) ==
    /\ finder[k].pc = "find_w"
    /\ LET found == find_ssts_internal(index_w, seg_map[2], finder[k].start_key,
                                       finder[k].end_key)
       IN  /\ index_w' = found.index
           /\ finder' = [finder EXCEPT ![k].pc = "holding", ![k].w = found.res,
                                       ![k].count = @ + found.count]
           /\ handed_out' = handed_out \cup Handed("w", found.res)
    /\ UNCHANGED <<seg_map, index_d, find_calls, lvars, kvars, scale_log, cvars, wvars,
                   svars, schvars, fpvars>>

\* release_index with what the caller's find_ssts returned, under the lock of index_d
ReleaseD(k) ==
    /\ finder[k].pc = "holding"
    /\ \E d_progress \in ProgressPoints :
          /\ index_d' = release_index_internal(index_d, finder[k].d, d_progress[1],
                                               d_progress[2])
          /\ handed_out' = StillHanded("d", finder[k].d, d_progress[1], d_progress[2])
    /\ finder' = [finder EXCEPT ![k].pc = "release_w"]
    /\ UNCHANGED <<seg_map, index_w, find_calls, lvars, kvars, scale_log, cvars, wvars,
                   svars, schvars, fpvars>>

\* release_index, under the lock of index_w, and its return; the progress point of w
\* is an argument of the call and is first read here
ReleaseW(k) ==
    /\ finder[k].pc = "release_w"
    /\ \E w_progress \in ProgressPoints :
          /\ index_w' = release_index_internal(index_w, finder[k].w, w_progress[1],
                                               w_progress[2])
          /\ handed_out' = StillHanded("w", finder[k].w, w_progress[1], w_progress[2])
    /\ finder' = [finder EXCEPT ![k] = NotFinding]
    /\ UNCHANGED <<seg_map, index_d, find_calls, lvars, kvars, scale_log, cvars, wvars,
                   svars, schvars, fpvars>>

\* SegmentMapManager::register(d, w), the manager shared by the callers
SegInit ==
    /\ CInit
    /\ WInit0
    /\ SInit0
    /\ SchedInit0
    /\ PoolInit0
    /\ LInit0
    /\ KInit0
    /\ ScaleInit0
    /\ seg_map \in {<<map, map>> : map \in SegmentMaps}
    /\ index_d = generate_index(seg_map[1])
    /\ index_w = generate_index(seg_map[2])
    /\ finder = [k \in SegCallers |-> NotFinding]
    /\ find_calls = 0
    /\ handed_out = {}

SegNext ==
    \E k \in SegCallers :
        \/ FindD(k)
        \/ FindW(k)
        \/ ReleaseD(k)
        \/ ReleaseW(k)

SpecSeg == SegInit /\ [][SegNext]_vars

--------------------------------------------------------------------------
(* Properties of the collector *)

\* the LogFile that carried file id `id` (upstream numbers the files as they arrive)
FileOf(id) == inputs[id]

RECURSIVE SumSizes(_)
\* the sum of real_size over a list of file ids
SumSizes(ids) ==
    IF Len(ids) = 0 THEN 0
    ELSE FileOf(ids[1]).real_size + SumSizes(SubSeq(ids, 2, Len(ids)))

SeqRange(s) == {s[i] : i \in 1..Len(s)}

\* the Compactions still buffered in last_compactions
Buffered == IF last_compactions = None THEN <<>> ELSE last_compactions[1]

\* every Compaction the collector has produced: yielded, or formed by the flush
Produced == SeqRange(outputs) \cup SeqRange(Buffered)

\* how many times a file id occurs in the source lists of the yielded Compactions
Occurrences(id) ==
    Cardinality({<<j, n>> \in (1..Len(outputs)) \X (1..MaxFiles + 1) :
                    n <= Len(outputs[j].source) /\ outputs[j].source[n] = id})

\* C1: once an error-free run has been drained to end-of-stream, every input
\* file id occurs exactly once in the source lists of the yielded Compactions.
C1_EveryFileInExactlyOneCompaction ==
    (ret.kind = "End" /\ ~errored) =>
        \A i \in 1..Len(inputs) : Occurrences(inputs[i].id) = 1

C1_Witness ==
    /\ ret.kind = "End"
    /\ ~errored
    /\ Len(inputs) >= 3
    /\ Len(outputs) >= 2
    /\ \E j \in 1..Len(outputs) : Len(outputs[j].source) >= 2

\* C2: when the cumulative real_size of the files of a key since its accumulator
\* was last empty first exceeds the threshold at the k-th file, that add_new_file
\* call returns a Compaction of exactly files 1..k and removes the accumulator.
C2_ThresholdEmitsFilesOneToK ==
    [][Len(inputs') = Len(inputs) + 1 =>
        LET file == inputs'[Len(inputs')]
            key == [region_id |-> file.region_id, cf |-> file.cf]
            before == IF key \in DOMAIN items THEN items[key].files ELSE <<>>
            cum == SumSizes(before)
        IN  (cum <= compaction_size_threshold
                /\ cum + file.real_size > compaction_size_threshold) =>
                /\ ret'.kind = "Item"
                /\ ret'.item[1].source = Append(before, file.id)
                /\ key \notin DOMAIN items']_vars

\* C3: every file id in the source of a produced Compaction came from a LogFile
\* of the Compaction's own cf and region_id.
C3_SourcesShareCfAndRegion ==
    \A comp \in Produced : \A n \in 1..Len(comp.source) :
        /\ FileOf(comp.source[n]).cf = comp.cf
        /\ FileOf(comp.source[n]).region_id = comp.region_id

C3_Witness ==
    \E comp \in Produced :
        /\ Len(comp.source) >= 2
        /\ \E i \in 1..Len(inputs) :
              inputs[i].region_id = comp.region_id /\ inputs[i].cf # comp.cf

\* C4: a produced Compaction's min_key / max_key / min_ts / max_ts are the
\* minimum / maximum over its source files and its size is the sum of their
\* real_size.
C4_BoundsAndSizeCoverSources ==
    \A comp \in Produced :
        LET fs == {FileOf(comp.source[n]) : n \in 1..Len(comp.source)}
        IN  /\ \E f \in fs : comp.min_key = f.min_key
            /\ \A f \in fs : BytesCmp(comp.min_key, f.min_key) # "Greater"
            /\ \E f \in fs : comp.max_key = f.max_key
            /\ \A f \in fs : BytesCmp(comp.max_key, f.max_key) # "Less"
            /\ \E f \in fs : comp.min_ts = f.min_ts
            /\ \A f \in fs : comp.min_ts <= f.min_ts
            /\ \E f \in fs : comp.max_ts = f.max_ts
            /\ \A f \in fs : comp.max_ts >= f.max_ts
            /\ comp.size = SumSizes(comp.source)

C4_Witness ==
    \E comp \in Produced :
        /\ Len(comp.source) >= 2
        /\ comp.min_key # FileOf(comp.source[1]).min_key
        /\ comp.max_ts # FileOf(comp.source[1]).max_ts
        /\ comp.size > compaction_size_threshold

\* how many of the yielded or still buffered Compactions are the accumulator of `key`
FlushedCopies(all, key, u) ==
    Cardinality({j \in 1..Len(all) :
                    /\ all[j].source = u.files
                    /\ all[j].cf = key.cf
                    /\ all[j].region_id = key.region_id})

\* C5: after upstream has ended, every accumulator that was open at that moment
\* is yielded as exactly one Compaction; end-of-stream is returned only when all
\* of them have been yielded, and from then on every poll returns end-of-stream.
C5_OpenAccumulatorsFlushedBeforeEnd ==
    /\ [](open_at_end # None =>
            \A key \in DOMAIN open_at_end[1] :
                /\ FlushedCopies(outputs \o Buffered, key, open_at_end[1][key]) = 1
                /\ ret.kind = "End" =>
                      FlushedCopies(outputs, key, open_at_end[1][key]) = 1)
    /\ [][ret.kind = "End" => ret'.kind = "End"]_vars

C5_Witness ==
    /\ ret.kind = "End"
    /\ open_at_end # None
    /\ Cardinality(DOMAIN open_at_end[1]) >= 2

\* C6: once the collector stream has yielded an upstream error, no later poll
\* yields a Compaction.
C6_NoCompactionAfterError ==
    [][errored => outputs' = outputs]_vars

\* C14: any two Compactions the collector yields in one run are uploaded under
\* different output names.
C14_OutputNamesDistinct ==
    \A i, j \in 1..Len(outputs) :
        i # j => OutName(outputs[i]) # OutName(outputs[j])

\* C21: after add_new_file has returned, no accumulator left in the collector
\* has a size above the threshold.
C21_NoAccumulatorAboveThreshold ==
    \A key \in DOMAIN items : items[key].size <= compaction_size_threshold

\* C22: take_pending_compactions is invoked at most once, and once upstream has
\* returned end-of-input it is not polled again: from then on last_compactions
\* is Some, so every poll returns from the buffer, and the files received, the
\* accumulators and the snapshot taken at the end stay as they are.
C22_UpstreamEndedOnce ==
    /\ [](inner = "ended" => (last_compactions # None /\ open_at_end # None /\ items = <<>>))
    /\ [][inner = "ended" =>
            /\ inner' = "ended"
            /\ inputs' = inputs
            /\ items' = items
            /\ open_at_end' = open_at_end]_vars

C22_Witness ==
    /\ inner = "ended"
    /\ ret.kind = "End"
    /\ Len(outputs) >= 2
    /\ Cardinality(DOMAIN open_at_end[1]) >= 1

--------------------------------------------------------------------------
(* Properties of add_new_file, step by step *)

\* the step is one call of add_new_file: upstream has yielded one more LogFile
AddsFile == Len(inputs') = Len(inputs) + 1

\* the LogFile the step hands to add_new_file, and its collect key
AddedFile == inputs'[Len(inputs')]
AddedKey == CollectKeyOf(AddedFile)

\* the ids of the files of collect key `key` that have arrived so far
ArrivedFor(key) == {i \in 1..Len(inputs) : CollectKeyOf(inputs[i]) = key}

\* the latest file of `key` that has arrived closed a Compaction of `key`:
\* add_new_file emitted for the key and no file of the key has come since
EmittedLast(key) ==
    /\ ArrivedFor(key) # {}
    /\ \E j \in 1..Len(outputs) :
          /\ outputs[j].cf = key.cf
          /\ outputs[j].region_id = key.region_id
          /\ outputs[j].source[Len(outputs[j].source)] =
                CHOOSE i \in ArrivedFor(key) : \A i2 \in ArrivedFor(key) : i2 <= i

\* C24: the file that follows an emission of its key returns nothing and leaves an
\* accumulator seeded from that file alone: its size is the file's real_size, its
\* file list is the one file, its timestamp and key bounds are the file's own.
C24_FreshAccumulatorAfterEmission ==
    [][(AddsFile /\ EmittedLast(AddedKey)) =>
          /\ ret'.kind = "Looping"
          /\ outputs' = outputs
          /\ AddedKey \in DOMAIN items'
          /\ items'[AddedKey].size = AddedFile.real_size
          /\ items'[AddedKey].files = <<AddedFile.id>>
          /\ items'[AddedKey].min_ts = AddedFile.min_ts
          /\ items'[AddedKey].max_ts = AddedFile.max_ts
          /\ items'[AddedKey].min_key = AddedFile.min_key
          /\ items'[AddedKey].max_key = AddedFile.max_key]_vars

\* the third file follows an emission of its key and its bounds differ from the
\* bounds of the emitted batch
C24_Witness ==
    /\ inner = "open"
    /\ Len(inputs) = 3
    /\ Len(outputs) = 1
    /\ outputs[1].source = <<1, 2>>
    /\ CollectKeyOf(inputs[3]) = [region_id |-> outputs[1].region_id, cf |-> outputs[1].cf]
    /\ DOMAIN items = {CollectKeyOf(inputs[3])}
    /\ items[CollectKeyOf(inputs[3])].files = <<3>>
    /\ items[CollectKeyOf(inputs[3])].min_key # outputs[1].min_key
    /\ items[CollectKeyOf(inputs[3])].max_ts # outputs[1].max_ts

\* C27: the source list of every Compaction produced names files of the
\* Compaction's key in the order in which they arrived (file ids are arrival
\* numbers), without a gap: no earlier file of the key that lies between two
\* listed files is left out.
C27_SourceInArrivalOrder ==
    \A cc \in Produced :
        /\ \A i, j \in 1..Len(cc.source) : i < j => cc.source[i] < cc.source[j]
        /\ \A i \in 1..Len(cc.source) :
              /\ cc.source[i] \in 1..Len(inputs)
              /\ inputs[cc.source[i]].id = cc.source[i]
        /\ \A id \in ArrivedFor([region_id |-> cc.region_id, cf |-> cc.cf]) :
              (cc.source[1] <= id /\ id <= cc.source[Len(cc.source)])
                  => id \in SeqRange(cc.source)

\* a Compaction of the first and the third file, with a file of another key
\* arriving between them
C27_Witness ==
    /\ Len(inputs) = 3
    /\ \E cc \in Produced : cc.source = <<1, 3>>

\* C29: add_new_file for a file of key K leaves the accumulator of every other
\* key as it was, present or absent, whether or not the call emits.
C29_OtherAccumulatorsUntouched ==
    [][AddsFile =>
          \A key \in CollectKeys \ {AddedKey} :
              /\ (key \in DOMAIN items') = (key \in DOMAIN items)
              /\ key \in DOMAIN items => items'[key] = items[key]]_vars

\* an emission has just removed the accumulator of its key, and the accumulator
\* of another key is still in the map
C29_Witness ==
    /\ inner = "open"
    /\ ret.kind = "Item"
    /\ Len(outputs) = 1
    /\ Cardinality(DOMAIN items) = 1
    /\ \A key \in DOMAIN items :
          key # [region_id |-> outputs[1].region_id, cf |-> outputs[1].cf]

\* C30: every Compaction produced has a source, and a Compaction with fewer than
\* two sources was formed by the flush at the end of input; whatever add_new_file
\* returns has at least two sources.
C30_SourceNonEmpty ==
    /\ \A cc \in Produced :
          /\ Len(cc.source) >= 1
          /\ Len(cc.source) < 2 =>
                /\ open_at_end # None
                /\ \E key \in DOMAIN open_at_end[1] : cc = Form(key, open_at_end[1][key])
    /\ inner = "open" => \A j \in 1..Len(outputs) : Len(outputs[j].source) >= 2

\* a threshold emission of two files followed by a flushed Compaction of one
C30_Witness ==
    /\ ret.kind = "End"
    /\ Len(outputs) = 2
    /\ Len(outputs[1].source) = 2
    /\ Len(outputs[2].source) = 1

--------------------------------------------------------------------------
(* Properties of the worker *)

\* the full key a Record stands for
FullKey(r) == r.prefix.bytes \o r.key

\* the key/value pairs decoded from the source files
InputPairs == UNION {SeqRange(file_kvs[f]) : f \in Sources}

\* the positions of the sorted vector whose record has the key of r
RunOf(sorted, r) == {j \in 1..Len(sorted) : FullKey(sorted[j]) = FullKey(r)}

\* C7 as stated: of the records with one key, merge_and_sort retains the one that
\* sorted last.
C7_LastOfEqualKeysRetained ==
    [][(wpc = "sorted" /\ wpc' = "write") =>
        \A i \in 1..Len(sorted_items') :
            LET run == RunOf(flatten_items, sorted_items'[i])
            IN  \E j \in run : /\ \A j2 \in run : j2 <= j
                               /\ sorted_items'[i] = flatten_items[j]]_vars

\* C7 amended: of the records with one key, merge_and_sort retains the one that
\* sorted first.
C7_FirstOfEqualKeysRetained ==
    [][(wpc = "sorted" /\ wpc' = "write") =>
        \A i \in 1..Len(sorted_items') :
            LET run == RunOf(flatten_items, sorted_items'[i])
            IN  \E j \in run : /\ \A j2 \in run : j2 >= j
                               /\ sorted_items'[i] = flatten_items[j]]_vars

C7_Witness ==
    /\ wpc = "write"
    /\ puts = <<>>
    /\ Len(sorted_items) >= 2
    /\ \E p1, p2 \in InputPairs :
          /\ p1.key = p2.key
          /\ p1.value # p2.value
          /\ \E i \in 1..Len(sorted_items) : FullKey(sorted_items[i]) = p1.key

\* the number of records in the source files
InputLen == Len(file_kvs[1]) + Len(file_kvs[2])

\* C8: what merge_and_sort returns is strictly increasing under the record
\* ordering, is no longer than its input, and every record carries a value that an
\* input record with the same key carried.
C8_MergedStrictlyIncreasing ==
    wpc = "write" =>
        /\ \A i \in 1..Len(sorted_items) - 1 :
              /\ cmp_key(sorted_items[i], sorted_items[i + 1]) = "Less"
              /\ BytesCmp(sorted_items[i].key, sorted_items[i + 1].key) = "Less"
        /\ Len(puts) + Len(sorted_items) <= InputLen
        /\ \A i \in 1..Len(sorted_items) :
              \E p \in InputPairs :
                  /\ p.key = FullKey(sorted_items[i])
                  /\ p.value = sorted_items[i].value

C8_Witness ==
    /\ wpc = "write"
    /\ puts = <<>>
    /\ Len(sorted_items) >= 2
    /\ Len(sorted_items) < InputLen
    /\ \E f \in Sources : Len(file_kvs[f]) >= 2 /\ BytesLess(file_kvs[f][2].key, file_kvs[f][1].key)

\* C9: the keys given to the table writer's put are strictly increasing in
\* byte-lexicographic order.
C9_PutKeysStrictlyIncreasing ==
    \A i \in 1..Len(puts) - 1 : BytesCmp(puts[i].key, puts[i + 1].key) = "Less"

C9_Witness ==
    /\ wpc = "done"
    /\ Len(puts) >= 2
    /\ InputLen > Len(puts)

\* C10: every pair given to the table writer is a key/value pair decoded from a
\* source file, and once the table is finished the keys written are exactly the
\* distinct keys of the source files, in increasing order.
C10_WrittenPairsAreInputPairs ==
    /\ \A i \in 1..Len(puts) : puts[i] \in InputPairs
    /\ wpc \in {"upload", "done"} =>
          /\ {puts[i].key : i \in 1..Len(puts)} = {p.key : p \in InputPairs}
          /\ \A i, j \in 1..Len(puts) : i < j => BytesCmp(puts[i].key, puts[j].key) = "Less"

C10_Witness ==
    /\ wpc = "done"
    /\ Len(puts) >= 3
    /\ Len(CommonPrefix(c).bytes) > 0
    /\ \E i \in 1..Len(puts) - 1 : Len(puts[i + 1].key) # Len(puts[i].key)

\* C11: when the load of a source file fails, compact_ext returns the error of
\* the load phase: nothing is merged, no pair is given to the table writer and
\* the output storage's write is not invoked.
C11_LoadFailureWritesNothing ==
    err = Some("load") =>
        /\ wpc = "failed"
        /\ flatten_items = <<>>
        /\ sorted_items = <<>>
        /\ puts = <<>>
        /\ write_calls = 0
        /\ uploaded = None

C11_Witness ==
    /\ err = Some("load")
    /\ wpc = "failed"
    /\ \E f \in Sources : loaded[f] # None /\ Len(loaded[f][1]) >= 1
    /\ \E f \in Sources : loaded[f] = None /\ Len(file_kvs[f]) >= 1

\* C12: the output storage's write is invoked at most once in a run, and only
\* with the finished table: every record has been put, finish_read has reported
\* the table's entries, and what is written is that table. A run that failed in
\* load or write_sst, or was dropped, has not invoked it.
C12_WriteOnceAfterTableFinished ==
    /\ write_calls <= 1
    /\ (wpc = "dropped" \/ err \in {Some("load"), Some("write")}) =>
          write_calls = 0 /\ uploaded = None
    /\ wpc \in {"load", "sorted", "write", "upload"} => write_calls = 0 /\ uploaded = None
    /\ wpc = "done" =>
          /\ write_calls = 1
          /\ sorted_items = <<>>
          /\ compact_statistic.keys_out = Len(puts)
          /\ {puts[i].key : i \in 1..Len(puts)} = {p.key : p \in InputPairs}
          /\ uploaded = Some([name |-> OutName(c), content |-> puts])

C12_Witness ==
    /\ wpc = "done"
    /\ write_calls = 1
    /\ Len(uploaded[1].content) >= 2

\* C13: when compact_ext has returned an error, whatever the phase, the caller's
\* LoadStatistic and CompactStatistic hold the values they held before the call.
C13_SinksUntouchedOnError ==
    wpc = "failed" =>
        /\ load_statistic = LoadStatisticZero
        /\ compact_statistic = CompactStatisticZero

\* C15: a second compact_ext run on the same Compaction and the same source
\* files writes the output name and the key/value sequence the first run wrote.
C15_RetryWritesSameOutput ==
    (attempt = "retry" /\ wpc = "done" /\ first_uploaded # None) =>
        uploaded = first_uploaded

\* C16, the bound: at every moment the loads in flight are at most
\* max_load_concurrency.
C16_InflightAtMostMaxConcurrency ==
    /\ Cardinality(inflight) <= max_load_concurrency
    /\ \A f \in inflight : loaded[f] = None

C16_EveryFileEventuallyLoaded ==
    \A f \in Sources :
        <>(loaded[f] # None \/ wpc \in {"failed", "panicked", "dropped"})

--------------------------------------------------------------------------
(* Properties of the statistics *)

\* C17: merge_with of LoadStatistic and of CompactStatistic is associative and
\* commutative, and the all-zero statistic is its identity on both sides.
C17_MergeAssociativeCommutativeZero ==
    stat_res # None =>
        LET r == stat_res[1]
        IN  /\ r.ab_c = r.a_bc
            /\ r.ab = r.ba
            /\ r.a_zero = stat_ops[1]
            /\ r.zero_a = stat_ops[1]

C17_Witness ==
    /\ stat_res # None
    /\ stat_kind = "load"
    /\ stat_ops[1].files_in # stat_ops[2].files_in
    /\ stat_ops[2].keys_in # stat_ops[3].keys_in
    /\ stat_res[1].ab_c.physical_bytes_in = 2

--------------------------------------------------------------------------
(* Properties of merge_and_sort and of the prefix stripping *)

\* the distinct keys of the records decoded from the source files
InputKeys == {p.key : p \in InputPairs}

\* C31: merge_and_sort loses no key and keeps no key twice: the keys of the records
\* it returns (those already put and those still to put) are the distinct keys of
\* the input, and their number is the number of distinct input keys.
C31_MergeKeepsEveryKeyOnce ==
    wpc = "write" =>
        /\ {FullKey(sorted_items[i]) : i \in 1..Len(sorted_items)}
              \cup {puts[i].key : i \in 1..Len(puts)} = InputKeys
        /\ Len(sorted_items) + Len(puts) = Cardinality(InputKeys)

\* merge_and_sort has just returned two records for three input records, the
\* duplicate key coming from two files
C31_Witness ==
    /\ wpc = "write"
    /\ puts = <<>>
    /\ InputLen = 3
    /\ Len(sorted_items) = 2
    /\ Cardinality(InputKeys) = 2
    /\ \E i \in 1..Len(file_kvs[1]) : \E j \in 1..Len(file_kvs[2]) :
          file_kvs[1][i].key = file_kvs[2][j].key

--------------------------------------------------------------------------
\* a <= b in the byte-lexicographic order, compared byte by byte
RECURSIVE LexLeq(_, _)
LexLeq(a, b) ==
    IF Len(a) = 0 THEN TRUE
    ELSE IF Len(b) = 0 THEN FALSE
    ELSE IF a[1] # b[1] THEN a[1] < b[1]
    ELSE LexLeq(Tail(a), Tail(b))

\* every record key of the source files lies within the bounds of the Compaction
KeysWithinBounds ==
    \A p \in InputPairs : LexLeq(c.min_key, p.key) /\ LexLeq(p.key, c.max_key)

\* n is the length of the longest common prefix of k1 and k2
LongestCommonPrefix(k1, k2, n) ==
    /\ n <= Len(k1)
    /\ n <= Len(k2)
    /\ \A i \in 1..n : k1[i] = k2[i]
    /\ (n < Len(k1) /\ n < Len(k2)) => k1[n + 1] # k2[n + 1]

\* C32: when every record key lies within the bounds of the Compaction, every
\* key starts with the common prefix of the bounds and the stripping in load does
\* not abort; common_prefix_len returns the length of the longest common prefix,
\* of the bounds and of a key and a bound alike.
C32_KeysWithinBoundsCarryPrefix ==
    /\ KeysWithinBounds =>
          /\ wpc # "panicked"
          /\ \A p \in InputPairs : strip_prefix(p.key, CommonPrefix(c).bytes) # None
    /\ LongestCommonPrefix(c.min_key, c.max_key, common_prefix_len(c.min_key, c.max_key))
    /\ \A p \in InputPairs :
          /\ LongestCommonPrefix(p.key, c.min_key, common_prefix_len(p.key, c.min_key))
          /\ LongestCommonPrefix(c.max_key, p.key, common_prefix_len(c.max_key, p.key))

\* a run over keys within bounds that share a prefix of one byte, one of them
\* the upper bound itself, has loaded and written every key
C32_Witness ==
    /\ wpc = "done"
    /\ KeysWithinBounds
    /\ CommonPrefix(c).bytes = <<1>>
    /\ Len(puts) = 3
    /\ puts[3].key = c.max_key
    /\ puts[1].key = c.min_key

--------------------------------------------------------------------------
(* Properties of the load statistics of a run *)

\* the load phase of the first run on c has returned Ok
LoadSucceeded ==
    /\ attempt = "first"
    /\ \/ wpc \in {"sorted", "write", "upload", "done"}
       \/ wpc = "failed" /\ err # Some("load")

\* C26: once the load phase has succeeded, the sink (empty before the run) holds
\* the sum of the statistics of the source files, in whatever order their loads
\* completed: files_in is the number of source files and keys_in the number of
\* records decoded from them, duplicates included.
C26_SinkHoldsSumOfFileStats ==
    LoadSucceeded =>
        /\ load_statistic.files_in = Len(c.source)
        /\ load_statistic.keys_in = Len(file_kvs[1]) + Len(file_kvs[2])
        /\ load_statistic =
              Load_merge_with(Load_merge_with(LoadStatisticZero, SourceLoadStat(file_kvs[1])),
                              SourceLoadStat(file_kvs[2]))

\* the load of the second file completed first, the files hold three records,
\* two of them with the same key
C26_Witness ==
    /\ LoadSucceeded
    /\ wpc = "done"
    /\ Len(file_kvs[1]) = 1
    /\ Len(file_kvs[2]) = 2
    /\ file_kvs[2][1].key = file_kvs[1][1].key
    /\ file_kvs[2][1].value # file_kvs[1][1].value
    /\ load_statistic.keys_in = 3
    /\ Len(puts) < 3
    /\ \E m \in sort_memo : m.given[1] = MakeRecord(CommonPrefix(c), file_kvs[2][1])

--------------------------------------------------------------------------
(* Properties of Source::load and of Record::cmp_key *)

\* C25: Source::load adds exactly 1 to files_in of the supplied statistic when it
\* returns Ok, and leaves files_in as it was when it returns an error, wherever
\* the error is met.
C25_FilesInCountsCompleteLoads ==
    [][(load_ret = None /\ load_ret' # None) =>
          /\ load_ret' = Some("Ok") <=> load_stat'.files_in = load_stat.files_in + 1
          /\ load_ret' = Some("Err") => load_stat'.files_in = load_stat.files_in
          /\ load_ret' = Some("Ok") <=> load_fail = None]_vars

\* an error met after a record had been counted: keys_in has grown by one,
\* files_in (one file before the call) has not
C25_Witness ==
    /\ load_ret = Some("Err")
    /\ load_fail = Some([phase |-> "next", n |-> 1])
    /\ Len(load_kvs) = 2
    /\ load_stat.keys_in = 2
    /\ load_stat.files_in = 1

\* the record `r` with its prefix held through the handle of `other`
SharingPrefixOf(r, other) == [r EXCEPT !.prefix = other.prefix]

\* C28: for two records whose prefix bytes are equal, cmp_key returns what it
\* returns when both records share one prefix allocation, and that is the
\* byte-lexicographic comparison of the full keys.
C28_CmpKeyPathsAgree ==
    (cmp_ret # None /\ cmp_args[1].prefix.bytes = cmp_args[2].prefix.bytes) =>
        /\ cmp_ret[1] = cmp_key(cmp_args[1], SharingPrefixOf(cmp_args[2], cmp_args[1]))
        /\ cmp_ret[1] = BytesCmp(cmp_args[1].prefix.bytes \o cmp_args[1].key,
                                 cmp_args[2].prefix.bytes \o cmp_args[2].key)

\* two allocations with the same bytes, and keys that differ
C28_Witness ==
    /\ cmp_ret = Some("Greater")
    /\ cmp_args[1].prefix.ptr # cmp_args[2].prefix.ptr
    /\ cmp_args[1].prefix.bytes = cmp_args[2].prefix.bytes
    /\ cmp_args[1].key = <<2, 1>>
    /\ cmp_args[2].key = <<2>>

--------------------------------------------------------------------------
(* Properties of the load phase under default options *)

\* the run was given CompactLogExt::default()
DefaultExt == max_load_concurrency = CompactLogExt_default.max_load_concurrency

\* a source file whose load has not been started
LoadPending == \E f \in Sources : loaded[f] = None /\ f \notin inflight

\* C23: in a run with default options on a worker built by inplace the load phase
\* is bounded by 16 loads in flight: the limit given to execute_all_ext is 16, so
\* a load that has not started may start while fewer than 16 are in flight.
C23_DefaultLoadBoundIs16 ==
    (DefaultExt /\ wpc = "load") =>
        /\ eext_max_concurrency = inplace_max_load_concurrency
        /\ Cardinality(inflight) <= inplace_max_load_concurrency
        /\ (LoadPending /\ Cardinality(inflight) < inplace_max_load_concurrency) => LoadPermit

--------------------------------------------------------------------------
(* Properties of the worker pool's Scheduler *)

\* C18: with the Scheduler clones calling schedule only, the pending-task
\* counter never exceeds pending_capacity.
C18_CounterWithinCapacity ==
    counter <= pending_capacity

\* the tasks that have been enqueued: in the channel, being run, or run
Enqueued == SeqRange(chan) \cup SeqRange(running) \cup SeqRange(ran)

\* C19: a schedule call returns an error exactly when it saw the counter at or
\* above pending_capacity (Full) or found the channel closed (Stopped); the task
\* of such a call is not enqueued and the call has added nothing to the counter.
\* A call that returns Ok saw the counter below the capacity, has enqueued its
\* task and has added one to the counter.
C19_ErrorsHandBackAndRestoreCounter ==
    \A r \in returned :
        /\ r.result \in {"Ok", "Full", "Stopped"}
        /\ r.result = "Full" <=> r.seen >= pending_capacity
        /\ r.result = "Stopped" => closed
        /\ r.result \in {"Full", "Stopped"} => r.net = 0 /\ r.task \notin Enqueued
        /\ r.result = "Ok" => r.net = 1 /\ r.task \in Enqueued

C19_Witness ==
    /\ \E r \in returned : r.result = "Full"
    /\ \E r \in returned : r.result = "Stopped"
    /\ \E r \in returned : r.result = "Ok"
    /\ \A s \in Schedulers : sched[s].pc = "idle"
    /\ counter = Len(chan) + Len(running)

\* the tasks schedule has accepted
Accepted == {r.task : r \in {x \in returned : x.result = "Ok"}}

\* the schedule calls that have added to the counter and not yet returned
AddedCalls == {s \in Schedulers : sched[s].pc \in {"added", "refused"}}

\* the tasks in the channel
QueuedTasks == {i \in 1..Len(chan) : chan[i] # TimeoutMsg}

\* C33, what holds at every moment: an accepted task is in the channel, being run
\* or run, and in one of these places once; the tasks of one scheduler are run in
\* the order of its calls; the counter counts the tasks not yet run (and the
\* calls on their way), a task run taking one off it, so that it is 0 once every
\* accepted task has run.
C33_TasksRunOnceInOrder ==
    /\ \A t \in Accepted :
          Cardinality({i \in 1..Len(chan) : chan[i] = t})
            + Cardinality({i \in 1..Len(running) : running[i] = t})
            + Cardinality({i \in 1..Len(ran) : ran[i] = t}) = 1
    /\ SeqRange(ran) \subseteq Accepted
    /\ \A i, j \in 1..Len(ran) :
          (i < j /\ ran[i][1] = ran[j][1]) => ran[i][2] < ran[j][2]
    /\ counter = Cardinality(QueuedTasks) + Len(running) + Cardinality(AddedCalls)
    /\ metrics_handled_task_count = Len(ran)
    /\ (AddedCalls = {} /\ SeqRange(ran) = Accepted) => counter = 0

C34_DrainThenShutdownOnce ==
    /\ [](/\ shutdown_calls <= 1
          /\ runner = "finished" <=> shutdown_calls = 1
          /\ runner = "finished" =>
                (closed /\ chan = <<>> /\ running = None /\ SeqRange(ran) = Accepted))
    /\ [][runner = "finished" =>
            (ran' = ran /\ running' = None /\ shutdown_calls' = shutdown_calls)]_vars
    /\ [][closed => (closed' /\ \A r \in returned' \ returned : r.result # "Ok")]_vars
    /\ closed ~> (runner = "finished")

\* C34 as stated: after stop has closed the channel the runner runs the tasks
\* already queued, then shutdown is called exactly once and no task is run
\* afterwards, and every schedule call that returns from then on returns Stopped.
C34_LaterCallsReturnStopped ==
    /\ C34_DrainThenShutdownOnce
    /\ [][closed => \A r \in returned' \ returned : r.result = "Stopped"]_vars

\* C34 amended: as above, except that a schedule call that returns after stop
\* returns an error, Stopped or, when it read the counter at or above
\* pending_capacity, Full; once the counter is below the capacity it is Stopped.
C34_LaterCallsReturnErrors ==
    /\ C34_DrainThenShutdownOnce
    /\ [][closed => \A r \in returned' \ returned :
                      /\ r.result \in {"Stopped", "Full"}
                      /\ r.result = "Full" <=> r.seen >= pending_capacity]_vars

\* the runner has run a task that was queued when stop closed the channel and has
\* shut down; a call made in between was turned away with Full, one with Stopped
C34_Witness ==
    /\ runner = "finished"
    /\ shutdown_calls = 1
    /\ Len(ran) >= 1
    /\ \E r \in returned : r.result = "Stopped"
    /\ \E r \in returned : r.result = "Full" /\ r.task[2] = 2
    /\ pending_capacity = 1

--------------------------------------------------------------------------
(* Properties of the FuturePool *)

\* C20: with a finite max_tasks, the futures spawned and not yet finished never
\* number more than max_tasks.
C20_UnfinishedWithinMaxTasks ==
    max_tasks # Unlimited => Cardinality(pool_tasks) <= max_tasks[1]

\* get_running_task_count: the sum of the gauges of the priorities
get_running_task_count(gauges) == gauges["High"] + gauges["Medium"] + gauges["Low"]

\* the step is the gate of a call of `kind` that lets its caller pass
GatePasses(kind) ==
    \E k \in Callers :
        /\ spawner[k].pc = "idle"
        /\ spawner'[k].pc = "gated"
        /\ spawner'[k].kind = kind

\* the step is the gate of a call of `kind` that returns Full
GateReturnsFull(kind) ==
    \E r \in spawn_returned' \ spawn_returned : r.result = "Full" /\ r.kind = kind

\* C35: with a finite max_tasks and the callers acting one at a time, spawn_handle
\* succeeds exactly when the futures spawned and not yet finished number fewer
\* than max_tasks; a call that returns Full leaves the running count as it was
\* and its future never reaches the pool; a future that finishes takes one off
\* the running count.
C35_SpawnHandleGatedByUnfinished ==
    /\ [][GatePasses("spawn_handle") => Cardinality(pool_tasks) < max_tasks[1]]_vars
    /\ [][GateReturnsFull("spawn_handle") =>
            /\ Cardinality(pool_tasks) >= max_tasks[1]
            /\ running_count' = running_count
            /\ pool_tasks' = pool_tasks]_vars
    /\ [](\A r \in spawn_returned :
            r.result = "Full" => \A t \in pool_tasks : t.task # r.task)
    /\ [][pool_tasks' # pool_tasks /\ pool_tasks' \subseteq pool_tasks =>
            get_running_task_count(running_count')
                = get_running_task_count(running_count) - 1]_vars

\* the i-th and the next resizing call are scale_pool_size(n) and then
\* scale_pool_size(P), P the pool size before the first of them
ScalesAndBack(i) ==
    /\ scale_log[i].op = "scale_pool_size"
    /\ scale_log[i + 1].op = "scale_pool_size"
    /\ scale_log[i + 1].arg = scale_log[i].before.pool_size

\* C36: scale_pool_size(n) followed by scale_pool_size(P), P the pool size before
\* and n positive, leaves max_tasks and the pool size as they were before the two
\* calls: a finite max_tasks M is M again, an unlimited one stays unlimited.
C36_ScalePoolSizeRoundTrips ==
    \A i \in 1..(Len(scale_log) - 1) :
        ScalesAndBack(i) => scale_log[i + 1].after = scale_log[i].before

--------------------------------------------------------------------------
(* Properties of the SegmentMapManager *)

\* the files of one side that caller k's find_ssts call has taken in this step
Found(side, k) ==
    IF side = "d"
    THEN IF finder[k].pc = "idle" /\ finder'[k].pc = "find_w"
         THEN Handed("d", finder'[k].d) ELSE {}
    ELSE IF finder[k].pc = "find_w" /\ finder'[k].pc = "holding"
         THEN Handed("w", finder'[k].w) ELSE {}

\* the file h lies in the key range of caller k's find_ssts call
InRangeOf(h, k) ==
    LET info == seg_map[IF h.side = "d" THEN 1 ELSE 2][h.level][h.idx]
    IN  /\ Len(finder[k].end_key) = 0 \/ VecLess(info.start_key, finder[k].end_key)
        /\ Len(info.end_key) = 0 \/ VecLess(finder[k].start_key, info.end_key)

\* C37: under any interleaving of find_ssts and release_index calls, an SST that one
\* find_ssts call returned is returned by no other find_ssts call until release_index
\* has been called for it with a progress point that does not cover it: the files a
\* find_ssts call takes are none of those handed out and not so released since.
C37_SstHandedToOneCall ==
    [][\A k \in SegCallers, side \in {"d", "w"} : Found(side, k) \cap handed_out = {}]_vars

\* two find_ssts calls hold files at once: one has returned files of d, the other,
\* whose key range has those files in it, has returned other files of d and none of them
C37_Witness ==
    \E k \in SegCallers, j \in SegCallers :
        /\ k # j
        /\ finder[j].pc = "holding"
        /\ finder[k].pc = "holding"
        /\ Handed("d", finder[j].d) # {}
        /\ Handed("d", finder[k].d) # {}
        /\ \A h \in Handed("d", finder[j].d) :
              InRangeOf(h, k) /\ h \notin Handed("d", finder[k].d)

====
